---- MODULE Spec2Model ----
(***************************************************************************)
(* A model of the concurrent ETL framework: the stage processors           *)
(* (processors/extract.py, transform.py, load.py, output.py), the per-path *)
(* lock registry (utils/file_lock_manager.py) and the two orchestrators    *)
(* (orchestration/orchestrator.py).                                        *)
(*                                                                         *)
(* A record set (pandas DataFrame) is a sequence of rows; a row is a       *)
(* record of its columns.  Dates are integers yyyymmdd.                    *)
(***************************************************************************)
EXTENDS Integers, Sequences, FiniteSets, Bags, TLC

\* ------------------------------------------------------------------ bounds
MaxFiles == 3
MaxRows == 2
MaxWorkers == 2
MaxDfRows == 3
MaxParts == 3
MaxReports == 3
MaxOutputs == 3
MaxVoucherRows == 3
MaxAmount == 3
MaxRunUnits == 2

VARIABLES
    file_paths,       \* Extract: the sources handed to process_concurrent, each [path, rows]
    exPc,             \* Extract.process_concurrent: "idle", "submit", "collect", "returned"
    exTask,           \* Extract: per source, the state of its future
    exSeen,           \* Extract: the futures as_completed has already yielded
    all_data,         \* Extract: the record sets collected so far, in completion order
    extracted_data,   \* Extract: what process_concurrent returned
    df,               \* Transform: the record set handed to process_concurrent
    num_partitions,   \* Transform: the partition count
    df_split,         \* Transform: the partitions np.array_split produced
    trPc,             \* Transform.process_concurrent: "idle", "call", "submit", "collect", "returned"
    trTask,           \* Transform: per partition, the state of its future
    trSeen,           \* Transform: the futures as_completed has already yielded
    results,          \* Transform: the partition results collected so far, in completion order
    transformed_data, \* Transform: what process_concurrent returned
    ldDf,             \* Load: the record set handed to process_concurrent
    reports,          \* Load: the Report Specs
    ldPc,             \* Load.process_concurrent: "idle", "call", "submit", "collect", "returned",
                      \* "unwinding" (an error is leaving the `with` block), "raised"
    ldTask,           \* Load: per report, the state of its future
    ldSeen,           \* Load: the futures as_completed has already yielded
    ldResults,        \* Load: the success map, keyed by dimension
    file_lock,        \* config.constants.file_lock: its holder
    outDf,            \* Output: the record set handed to process_concurrent
    output_configs,   \* Output: the Output Specs
    outPc,            \* Output.process_concurrent: "idle", "call", "submit", "collect", "returned"
    outTask,          \* Output: per Output Spec, the state of its future
    outSeen,          \* Output: the futures as_completed has already yielded
    outResults,       \* Output: the success map, keyed by filename
    locks,            \* FileLockManager._locks: normalized path -> lock
    manager_lock,     \* FileLockManager._manager_lock: its holder (0: free)
    lockOwner,        \* per lock of the registry, the task holding it (0: free)
    runPc,            \* Orchestrator.run: where the run is
    runCfg,           \* Orchestrator.run: the flow taken and the parameters read at its start
    load_success,     \* Orchestrator.run: any(results.values()) of the Load stage
    output_success,   \* Orchestrator.run: any(output_results.values()) of the Output stage
    runRet,           \* Orchestrator.run: the value returned ("none" while running)
    stats,            \* the Stats Sink of the context
    prPc,             \* Extract.process: where the call is
    file_info,        \* Extract.process: the source given, a path or a record holding one
    kwargs,           \* Extract.process: the caller's options
    prFilePath,       \* Extract.process: file_path, the resolved path (Unbound before it is assigned)
    reader_params,    \* Extract.process: the parameters the reader is called with
    prDf,             \* Extract.process: the record set the reader returned
    prExc,            \* Extract.process: the error caught by the except clause ("None": none)
    prCalls,          \* Extract.process: its calls of the reader and of the Stats Sink, in order
    prResult,         \* Extract.process: how the call ended and with what
    acPc,             \* AccountingTransformStrategy.transform: where the call is
    acDf,             \* AccountingTransformStrategy.transform: the record set given
    acOut,            \* AccountingTransformStrategy.transform: the record set returned
    acParts,          \* Transform.process_concurrent with the accounting strategy: num_partitions
    acMerged,         \* Transform.process_concurrent with the accounting strategy: what it returned
    opPc,             \* Output.process: where the call is
    opDf,             \* Output.process: the record set given
    output_config,    \* Output.process: the Output Spec given
    opKwargs,         \* Output.process: the caller's options (common_params, <writer>_params)
    all_params,       \* Output.process: the parameters the writer is called with
    opExc,            \* Output.process: the error caught by the except clause ("None": none)
    opCalls,          \* Output.process: its calls of the writer and of the Stats Sink, in order
    opResult,         \* Output.process: the value returned ("none" while running)
    sinkOf,           \* per orchestrator, the Stats Sink its context holds
    sinkStats,        \* per Stats Sink, its counters
    orPc,             \* per orchestrator: "none", "constructed", "running", "done"
    orUnits,          \* per orchestrator, the units its run has processed
    orExpected,       \* per orchestrator, the counters its run's own units add up to
    orRead,           \* per orchestrator, the counters read when its run ended
    sinkLock,         \* Stats Sink: the worker inside an update of the counters (0: none)
    exPending,        \* Extract: per source, the update of the Stats Sink its worker is in
    tpPc,             \* Transform.process / the worker: where the call is
    df_chunk,         \* Transform.process / the worker: the partition given
    tpIndex,          \* the worker: the chunk_index given
    custom_transform, \* the worker: the post-transform hook ("none", "returns", "raises")
    tpRet,            \* the worker: the triple it returned
    tpResult,         \* Transform.process: how the call ended and with what
    detPc,            \* detect_file_format: where the call is
    detPath,          \* detect_file_format: the path given
    detResult,        \* detect_file_format: the format returned, or the error raised
    lkProg,           \* locking: per thread, the lock operations of the call it runs, in order
    lkAt,             \* locking: per thread, the next of its lock operations
    lkHolder          \* locking: per lock, the thread holding it (0: free)

exVars == <<file_paths, exPc, exTask, exSeen, all_data, extracted_data>>
trVars == <<df, num_partitions, df_split, trPc, trTask, trSeen, results, transformed_data>>
ldVars == <<ldDf, reports, ldPc, ldTask, ldSeen, ldResults, file_lock>>
outVars == <<outDf, output_configs, outPc, outTask, outSeen, outResults, locks,
             manager_lock, lockOwner>>
runVars == <<runPc, runCfg, load_success, output_success, runRet>>
prVars == <<prPc, file_info, kwargs, prFilePath, reader_params, prDf, prExc, prCalls, prResult>>
acVars == <<acPc, acDf, acOut, acParts, acMerged>>
ctxVars == <<sinkOf, sinkStats, orPc, orUnits, orExpected, orRead>>
skVars == <<sinkLock, exPending>>
detVars == <<detPc, detPath, detResult>>
lkVars == <<lkProg, lkAt, lkHolder>>
tpVars == <<tpPc, df_chunk, tpIndex, custom_transform, tpRet, tpResult>>
opVars == <<opPc, opDf, output_config, opKwargs, all_params, opExc, opCalls, opResult>>

\* the single calls modelled on their own
callVars == <<prVars, acVars, opVars, ctxVars, skVars, tpVars, detVars, lkVars>>
vars == <<exVars, trVars, ldVars, outVars, runVars, stats, callVars>>

\* what the actions of one stage leave alone
exOther == <<trVars, ldVars, outVars, runVars, callVars>>
trOther == <<exVars, ldVars, outVars, runVars, callVars>>
ldOther == <<exVars, trVars, outVars, runVars, callVars>>
outOther == <<exVars, trVars, ldVars, runVars, callVars>>
prOther == <<exVars, trVars, ldVars, outVars, runVars, acVars, opVars, ctxVars, skVars, tpVars, detVars, lkVars>>
acOther == <<exVars, trVars, ldVars, outVars, runVars, prVars, opVars, ctxVars, skVars, tpVars, detVars, lkVars, stats>>
opOther == <<exVars, trVars, ldVars, outVars, runVars, prVars, acVars, ctxVars, skVars, tpVars, detVars, lkVars>>
ctxOther == <<exVars, trVars, ldVars, outVars, runVars, prVars, acVars, opVars, skVars, tpVars, detVars, lkVars, stats>>
skOther == <<trVars, ldVars, outVars, runVars, prVars, acVars, opVars, ctxVars, tpVars, detVars, lkVars>>
tpOther == <<exVars, trVars, ldVars, outVars, runVars, prVars, acVars, opVars, ctxVars, skVars, detVars, lkVars>>
detOther == <<exVars, trVars, ldVars, outVars, runVars, prVars, acVars, opVars, ctxVars, skVars, tpVars, lkVars, stats>>

\* ------------------------------------------------------------- record sets
EmptyFrame == <<>>

\* A plausible slip: only the last frame collected is kept.
ConcatLast(frames) ==
    IF frames = <<>> THEN EmptyFrame ELSE frames[Len(frames)]

RECURSIVE Concat(_)
\* pd.concat(frames, ignore_index=True): the frames' rows, one frame after the other
Concat(frames) ==
    IF frames = <<>> THEN EmptyFrame
    ELSE Head(frames) \o Concat(Tail(frames))

RECURSIVE RowBag(_)
\* the multiset of the rows of a record set
RowBag(frame) ==
    IF frame = <<>> THEN EmptyBag
    ELSE SetToBag({Head(frame)}) (+) RowBag(Tail(frame))

RECURSIVE SumLen(_, _)
\* the sum of the row counts of the record sets data[i], i in S
SumLen(data, S) ==
    IF S = {} THEN 0
    ELSE LET i == CHOOSE x \in S : TRUE
         IN Len(data[i]) + SumLen(data, S \ {i})

RECURSIVE BagOf(_, _)
\* the multiset of the rows of the record sets data[i], i in S
BagOf(data, S) ==
    IF S = {} THEN EmptyBag
    ELSE LET i == CHOOSE x \in S : TRUE
         IN RowBag(data[i]) (+) BagOf(data, S \ {i})

\* ---------------------------------------------------------------- Stats Sink
ErrorKinds ==
    {"FileNotFoundError", "ValueError", "KeyError", "OSError", "Exception", "RuntimeError"}

\* no exception was caught
NoError == "none"

StatsReset ==
    [files_processed |-> 0, rows_processed |-> 0,
     error_counts |-> [k \in ErrorKinds |-> 0]]

StatsFileProcessed(s, rows) ==
    [s EXCEPT !.files_processed = @ + 1, !.rows_processed = @ + rows]

StatsRecordError(s, kind) ==
    [s EXCEPT !.error_counts[kind] = @ + 1]

\* ------------------------------------------------------------------ Extract
\* The dates the generated sources cycle through; the last one is no date.
DateCycle == <<20240131, 20240229, 20240230>>

SourceRows(i, n) ==
    [k \in 1..n |-> [date |-> DateCycle[((i + k) % 3) + 1], amount |-> 10 * i + k]]

SourceFile(i, n) == [path |-> i, rows |-> SourceRows(i, n)]

Running(task) == {i \in DOMAIN task : task[i].st = "running"}

\* leaving `with ...Executor(...) as executor`: shutdown(wait=True) returns once
\* no submitted future is pending or running
Joined(task) == \A i \in DOMAIN task : task[i].st \notin {"queued", "running"}

ExtractSubmit(i) ==
    /\ exPc = "submit"
    /\ i \in DOMAIN file_paths
    /\ exTask[i].st = "none"
    /\ \A j \in 1..(i - 1) : exTask[j].st # "none"
    /\ exTask' = [exTask EXCEPT ![i].st = "queued"]
    /\ exPc' = IF i = Len(file_paths) THEN "collect" ELSE "submit"
    /\ UNCHANGED <<file_paths, exSeen, all_data, extracted_data, stats, exOther>>

ExtractSubmitNone ==
    /\ exPc = "submit"
    /\ file_paths = <<>>
    /\ exPc' = "collect"
    /\ UNCHANGED <<file_paths, exTask, exSeen, all_data, extracted_data, stats, exOther>>

ExtractTaskStart(i) ==
    /\ i \in DOMAIN exTask
    /\ exTask[i].st = "queued"
    /\ Cardinality(Running(exTask)) < MaxWorkers
    /\ exTask' = [exTask EXCEPT ![i].st = "running"]
    /\ UNCHANGED <<file_paths, exPc, exSeen, all_data, extracted_data, stats, exOther>>

ExtractProcessOk(i) ==
    /\ i \in DOMAIN exTask
    /\ exTask[i].st = "running"
    /\ stats' = StatsFileProcessed(stats, Len(file_paths[i].rows))
    /\ exTask' = [exTask EXCEPT ![i] = [st |-> "done", data |-> file_paths[i].rows]]
    /\ UNCHANGED <<file_paths, exPc, exSeen, all_data, extracted_data, exOther>>

ExtractProcessRaise(i) ==
    /\ i \in DOMAIN exTask
    /\ exTask[i].st = "running"
    /\ stats' = StatsRecordError(stats, "FileNotFoundError")
    /\ exTask' = [exTask EXCEPT ![i].st = "failed"]
    /\ UNCHANGED <<file_paths, exPc, exSeen, all_data, extracted_data, exOther>>

\* A plausible slip: the error of one future escapes the collecting loop and the
\* call ends without a result.
ExtractCollectAborting(i) ==
    /\ exPc = "collect"
    /\ i \in DOMAIN exTask
    /\ i \notin exSeen
    /\ exTask[i].st \in {"done", "failed"}
    /\ exSeen' = exSeen \cup {i}
    /\ all_data' = IF exTask[i].st = "done"
                   THEN Append(all_data, exTask[i].data)
                   ELSE all_data
    /\ exPc' = IF exTask[i].st = "failed" THEN "returned" ELSE exPc
    /\ UNCHANGED <<file_paths, exTask, extracted_data, stats, exOther>>

\* A plausible slip: a result that completes after a later-submitted sibling's
\* was collected is dropped, so that the content follows the completion order.
ExtractCollectInOrderOnly(i) ==
    /\ exPc = "collect"
    /\ i \in DOMAIN exTask
    /\ i \notin exSeen
    /\ exTask[i].st \in {"done", "failed"}
    /\ exSeen' = exSeen \cup {i}
    /\ all_data' = IF exTask[i].st = "done" /\ \A j \in exSeen : j < i
                   THEN Append(all_data, exTask[i].data)
                   ELSE all_data
    /\ UNCHANGED <<file_paths, exPc, exTask, extracted_data, stats, exOther>>

\* A plausible slip: a source whose read failed is submitted again.
ExtractCollectRetrying(i) ==
    /\ exPc = "collect"
    /\ i \in DOMAIN exTask
    /\ i \notin exSeen
    /\ exTask[i].st \in {"done", "failed"}
    /\ IF exTask[i].st = "done"
       THEN /\ exSeen' = exSeen \cup {i}
            /\ all_data' = Append(all_data, exTask[i].data)
            /\ UNCHANGED exTask
       ELSE /\ exTask' = [exTask EXCEPT ![i].st = "queued"]
            /\ UNCHANGED <<exSeen, all_data>>
    /\ UNCHANGED <<file_paths, exPc, extracted_data, stats, exOther>>

ExtractCollect(i) ==
    /\ exPc = "collect"
    /\ i \in DOMAIN exTask
    /\ i \notin exSeen
    /\ exTask[i].st \in {"done", "failed"}
    /\ exSeen' = exSeen \cup {i}
    /\ all_data' = IF exTask[i].st = "done"
                   THEN Append(all_data, exTask[i].data)
                   ELSE all_data
    /\ UNCHANGED <<file_paths, exPc, exTask, extracted_data, stats, exOther>>

\* A plausible slip: the call returns at the first future that completes and
\* leaves the executor running (shutdown(wait=False)).
ExtractReturnDetached ==
    /\ exPc = "collect"
    /\ exSeen # {} \/ DOMAIN exTask = {}
    /\ extracted_data' = IF all_data # <<>> THEN Concat(all_data) ELSE EmptyFrame
    /\ exPc' = "returned"
    /\ UNCHANGED <<file_paths, exTask, exSeen, all_data, stats, exOther>>

\* A plausible slip: the merge is not guarded by `if all_data`; pd.concat of an
\* empty list raises, so the call has no result when nothing was read.
ExtractReturnUnguarded ==
    /\ exPc = "collect"
    /\ exSeen = DOMAIN exTask
    /\ Joined(exTask)
    /\ all_data # <<>>
    /\ extracted_data' = Concat(all_data)
    /\ exPc' = "returned"
    /\ UNCHANGED <<file_paths, exTask, exSeen, all_data, stats, exOther>>

ExtractLoopDone == exSeen = DOMAIN exTask

ExtractReturn ==
    /\ exPc = "collect"
    /\ ExtractLoopDone
    /\ Joined(exTask)
    /\ extracted_data' = IF all_data # <<>> THEN Concat(all_data) ELSE EmptyFrame
    /\ exPc' = "returned"
    /\ UNCHANGED <<file_paths, exTask, exSeen, all_data, stats, exOther>>

ExtractNext ==
    \/ \E i \in DOMAIN exTask : ExtractSubmit(i)
    \/ ExtractSubmitNone
    \/ \E i \in DOMAIN exTask : ExtractTaskStart(i)
    \/ \E i \in DOMAIN exTask : ExtractProcessOk(i)
    \/ \E i \in DOMAIN exTask : ExtractProcessRaise(i)
    \/ \E i \in DOMAIN exTask : ExtractCollect(i)
    \/ ExtractReturn

\* ------------------------------------- Extract workers and the Stats Sink
\* The workers of process_concurrent with the update of the Stats Sink taken
\* apart: a worker enters the sink, reads the counters, writes them back
\* changed and leaves.  The sink lets one worker in at a time.

\* no update under way
NoPending == [op |-> "none", seen |-> StatsReset]

\* A plausible slip: the counters are updated without mutual exclusion.
SinkEnterUnlocked(i, op) ==
    /\ i \in DOMAIN exTask
    /\ exTask[i].st = "running"
    /\ exPending[i].op = "none"
    /\ exPending' = [exPending EXCEPT ![i] = [op |-> op, seen |-> stats]]
    /\ UNCHANGED <<sinkLock, exVars, stats, skOther>>

\* the worker's read ended (op says how) and it calls the Stats Sink:
\* file_processed or record_error enters the sink and reads the counters
SinkEnter(i, op) ==
    /\ i \in DOMAIN exTask
    /\ exTask[i].st = "running"
    /\ exPending[i].op = "none"
    /\ sinkLock = 0
    /\ sinkLock' = i
    /\ exPending' = [exPending EXCEPT ![i] = [op |-> op, seen |-> stats]]
    /\ UNCHANGED <<exVars, stats, skOther>>

\* the counters are written back and the worker's call of process ends:
\* it returns the record set, or re-raises
SinkLeave(i) ==
    /\ i \in DOMAIN exTask
    /\ exTask[i].st = "running"
    /\ exPending[i].op # "none"
    /\ sinkLock' = IF sinkLock = i THEN 0 ELSE sinkLock
    /\ IF exPending[i].op = "file_processed"
       THEN /\ stats' = StatsFileProcessed(exPending[i].seen, Len(file_paths[i].rows))
            /\ exTask' = [exTask EXCEPT ![i] = [st |-> "done", data |-> file_paths[i].rows]]
       ELSE /\ stats' = StatsRecordError(exPending[i].seen, "FileNotFoundError")
            /\ exTask' = [exTask EXCEPT ![i].st = "failed"]
    /\ exPending' = [exPending EXCEPT ![i] = NoPending]
    /\ UNCHANGED <<file_paths, exPc, exSeen, all_data, extracted_data, skOther>>

ExtractSinkNext ==
    \/ \E i \in DOMAIN exTask : ExtractSubmit(i)
    \/ ExtractSubmitNone
    \/ \E i \in DOMAIN exTask : ExtractTaskStart(i)
    \/ \E i \in DOMAIN exTask : SinkEnter(i, "file_processed")
    \/ \E i \in DOMAIN exTask : SinkEnter(i, "record_error")
    \/ \E i \in DOMAIN exTask : SinkLeave(i)
    \/ \E i \in DOMAIN exTask : ExtractCollect(i)
    \/ ExtractReturn

\* ---------------------------------------------------- Extract.process
\* One call of ExtractProcessor.process, step by step.  A path is a record of its
\* stem and its extension.

\* file_path before `file_path = ...` has run
Unbound == [stem |-> "<unbound>", ext |-> ""]

\* a record set not yet read
NoFrame == <<>>

\* A plausible slip: the extension is compared as it is spelled.
LowerNot(ext) == ext

\* str.lower() on the extensions used here
Lower(ext) ==
    CASE ext = "CSV" -> "csv"
      [] ext = "TXT" -> "txt"
      [] ext = "XLSX" -> "xlsx"
      [] ext = "XLS" -> "xls"
      [] ext = "PARQUET" -> "parquet"
      [] ext = "PKL" -> "pkl"
      [] ext = "PICKLE" -> "pickle"
      [] ext = "JSON" -> "json"
      [] ext = "FEATHER" -> "feather"
      [] OTHER -> ext

\* the extensions the format detection knows, with the default parameters
FormatParams ==
    [csv |-> <<>>, txt |-> <<>>, xlsx |-> [engine |-> "openpyxl"],
     xls |-> [engine |-> "openpyxl"], parquet |-> <<>>, pkl |-> <<>>,
     pickle |-> <<>>, json |-> [orient |-> "records"], feather |-> <<>>]

\* the reader of each format
FormatReader ==
    [csv |-> "read_csv", txt |-> "read_csv", xlsx |-> "read_excel",
     xls |-> "read_excel", parquet |-> "read_parquet", pkl |-> "read_pickle",
     pickle |-> "read_pickle", json |-> "read_json", feather |-> "read_feather"]

\* the writer method of each format
FormatWriter ==
    [csv |-> "to_csv", txt |-> "to_csv", xlsx |-> "to_excel",
     xls |-> "to_excel", parquet |-> "to_parquet", pkl |-> "to_pickle",
     pickle |-> "to_pickle", json |-> "to_json", feather |-> "to_feather"]

\* detect_file_format(file_path): the reader, the writer and the default
\* parameters of the format, or the error raised for an extension it does not
\* know
DetectFileFormat(path) ==
    IF Lower(path.ext) \in DOMAIN FormatParams
    THEN [error |-> "None", reader |-> FormatReader[Lower(path.ext)],
          writer |-> FormatWriter[Lower(path.ext)],
          params |-> FormatParams[Lower(path.ext)], message |-> ""]
    ELSE [error |-> "ValueError", reader |-> "None", writer |-> "None", params |-> <<>>,
          message |-> path.ext]

\* A path with directories is [dir, base]: the directory names and the file
\* name, each a list of the pieces its dots separate ("" before a leading dot).

\* os.path.splitext on the file name: what follows its last dot, unless only
\* dots come before it; "" when there is no extension
Splitext(path) ==
    LET n == Len(path.base)
    IN IF n = 1 \/ \A k \in 1..(n - 1) : path.base[k] = ""
       THEN ""
       ELSE path.base[n]

\* detect_file_format called on a path as a caller writes it
DetectCall ==
    /\ detPc = "start"
    /\ detResult' = DetectFileFormat([stem |-> "", ext |-> Splitext(detPath)])
    /\ detPc' = "returned"
    /\ UNCHANGED <<detPath, detOther>>

\* A plausible slip: the format's defaults win over the caller's options.
MergeParamsDefaultsWin(defaults, options) == defaults @@ options

\* {**format_info['params'], **kwargs}
MergeParams(defaults, options) == options @@ defaults

\* the call goes to the except clause with error `kind`
ProcessFails(kind) ==
    /\ prExc' = kind
    /\ prPc' = "except"

\* if isinstance(file_info, str): file_path = file_info; else: file_path = file_info['path']
ProcessResolvePath ==
    /\ prPc = "start"
    /\ IF file_info.kind = "str" \/ file_info.has_path
       THEN /\ prFilePath' = file_info.path
            /\ prPc' = "detect"
            /\ UNCHANGED prExc
       ELSE /\ ProcessFails("KeyError")
            /\ UNCHANGED prFilePath
    /\ UNCHANGED <<file_info, kwargs, reader_params, prDf, prCalls, prResult, stats, prOther>>

\* format_info = detect_file_format(file_path) and the merge of the parameters
ProcessDetectFormat ==
    /\ prPc = "detect"
    /\ LET format_info == DetectFileFormat(prFilePath)
       IN IF format_info.error = "None"
          THEN /\ reader_params' = MergeParams(format_info.params, kwargs)
               /\ prPc' = "read"
               /\ UNCHANGED prExc
          ELSE /\ ProcessFails(format_info.error)
               /\ UNCHANGED reader_params
    /\ UNCHANGED <<file_info, kwargs, prFilePath, prDf, prCalls, prResult, stats, prOther>>

\* the record sets a reader may return
ReadableFrames == {<<>>, SourceRows(1, 1), SourceRows(2, 2)}

\* the errors a reader may raise
ReaderErrors == {"FileNotFoundError", "ValueError"}

ReaderCall == [fn |-> "reader", path |-> prFilePath, params |-> reader_params]

\* df = reader_func(file_path, **reader_params) returns
ProcessReaderReturns ==
    /\ prPc = "read"
    /\ prCalls' = Append(prCalls, ReaderCall)
    /\ \E frame \in ReadableFrames : prDf' = frame
    /\ prPc' = "delay"
    /\ UNCHANGED <<file_info, kwargs, prFilePath, reader_params, prExc, prResult, stats, prOther>>

\* df = reader_func(file_path, **reader_params) raises
ProcessReaderRaises ==
    /\ prPc = "read"
    /\ prCalls' = Append(prCalls, ReaderCall)
    /\ \E kind \in ReaderErrors : ProcessFails(kind)
    /\ UNCHANGED <<file_info, kwargs, prFilePath, reader_params, prDf, prResult, stats, prOther>>

\* len(df), len(df.columns), time.sleep(processing_time) go through
ProcessDelay ==
    /\ prPc = "delay"
    /\ prPc' = "account"
    /\ UNCHANGED <<file_info, kwargs, prFilePath, reader_params, prDf, prExc, prCalls,
                   prResult, stats, prOther>>

\* one of len(df), len(df.columns), time.sleep(processing_time) raises
ProcessDelayRaises ==
    /\ prPc = "delay"
    /\ ProcessFails("RuntimeError")
    /\ UNCHANGED <<file_info, kwargs, prFilePath, reader_params, prDf, prCalls,
                   prResult, stats, prOther>>

\* A plausible slip: the file is counted under the source as given, not under
\* the resolved path.
ProcessFileProcessedRawSource ==
    /\ prPc = "account"
    /\ stats' = StatsFileProcessed(stats, Len(prDf))
    /\ prCalls' = Append(prCalls, [fn |-> "file_processed",
                                   path |-> IF file_info.kind = "str"
                                            THEN file_info.path ELSE file_info,
                                   rows |-> Len(prDf)])
    /\ prPc' = "return"
    /\ UNCHANGED <<file_info, kwargs, prFilePath, reader_params, prDf, prExc, prResult, prOther>>

\* self.context.stats.file_processed(file_path, rows)
ProcessFileProcessed ==
    /\ prPc = "account"
    /\ stats' = StatsFileProcessed(stats, Len(prDf))
    /\ prCalls' = Append(prCalls, [fn |-> "file_processed", path |-> prFilePath,
                                   rows |-> Len(prDf)])
    /\ prPc' = "return"
    /\ UNCHANGED <<file_info, kwargs, prFilePath, reader_params, prDf, prExc, prResult, prOther>>

\* return df
ProcessReturn ==
    /\ prPc = "return"
    /\ prResult' = [kind |-> "returned", error |-> "None", data |-> prDf]
    /\ prPc' = "returned"
    /\ UNCHANGED <<file_info, kwargs, prFilePath, reader_params, prDf, prExc, prCalls,
                   stats, prOther>>

\* A plausible slip: the except clause logs and re-raises without telling the
\* Stats Sink.
ProcessExceptSilent ==
    /\ prPc = "except"
    /\ prPc' = "reraise"
    /\ UNCHANGED <<file_info, kwargs, prFilePath, reader_params, prDf, prExc, prCalls,
                   prResult, stats, prOther>>

\* except Exception as e: self.context.stats.record_error(type(e).__name__)
ProcessExcept ==
    /\ prPc = "except"
    /\ stats' = StatsRecordError(stats, prExc)
    /\ prCalls' = Append(prCalls, [fn |-> "record_error", kind |-> prExc])
    /\ prPc' = "reraise"
    /\ UNCHANGED <<file_info, kwargs, prFilePath, reader_params, prDf, prExc, prResult, prOther>>

\* logger.error(f"... {file_path} ...") and raise: the log line reads file_path,
\* which raises UnboundLocalError in place of the error caught when the path
\* was never resolved
ProcessReraise ==
    /\ prPc = "reraise"
    /\ prResult' = [kind |-> "raised",
                    error |-> IF prFilePath = Unbound THEN "UnboundLocalError" ELSE prExc,
                    data |-> NoFrame]
    /\ prPc' = "raised"
    /\ UNCHANGED <<file_info, kwargs, prFilePath, reader_params, prDf, prExc, prCalls,
                   stats, prOther>>

\* no current_file marker
NoMarker == [stem |-> "<absent>", ext |-> ""]

\* the module keeps no thread-local: whatever the call does, a current_file
\* marker of the calling thread is absent
ThreadLocalCurrentFile == NoMarker

ProcessNext ==
    \/ ProcessResolvePath
    \/ ProcessDetectFormat
    \/ ProcessReaderReturns
    \/ ProcessReaderRaises
    \/ ProcessDelay
    \/ ProcessDelayRaises
    \/ ProcessFileProcessed
    \/ ProcessReturn
    \/ ProcessExcept
    \/ ProcessReraise

\* ---------------------------------------------------------------- Transform
IsLeap(y) == (y % 4 = 0 /\ y % 100 # 0) \/ y % 400 = 0

DaysInMonth(y, m) ==
    IF m = 2 THEN (IF IsLeap(y) THEN 29 ELSE 28)
    ELSE IF m \in {4, 6, 9, 11} THEN 30 ELSE 31

DateYear(d) == d \div 10000

DateMonth(d) == (d \div 100) % 100

DateDay(d) == d % 100

\* pd.to_datetime accepts the value
ValidDate(d) ==
    /\ DateMonth(d) \in 1..12
    /\ DateDay(d) \in 1..DaysInMonth(DateYear(d), DateMonth(d))

MonthOffset == <<0, 3, 2, 5, 0, 3, 5, 1, 4, 6, 2, 4>>

\* .dt.weekday: Monday is 0
Weekday(d) ==
    LET y == IF DateMonth(d) < 3 THEN DateYear(d) - 1 ELSE DateYear(d)
        sunday0 == (y + (y \div 4) - (y \div 100) + (y \div 400)
                      + MonthOffset[DateMonth(d)] + DateDay(d)) % 7
    IN (sunday0 + 6) % 7

\* DefaultSalesTransformStrategy.transform on one row with the columns date and
\* amount: the calendar fields and revenue (= amount when there is no total_price)
TransformRow(r) ==
    [date |-> r.date, amount |-> r.amount,
     year |-> DateYear(r.date), month |-> DateMonth(r.date),
     day |-> DateDay(r.date), weekday |-> Weekday(r.date),
     revenue |-> r.amount]

StrategyRaises(chunk) == \E k \in DOMAIN chunk : ~ValidDate(chunk[k].date)

StrategyTransform(chunk) == [k \in DOMAIN chunk |-> TransformRow(chunk[k])]

\* _transform_chunk_worker: (result, index, None) or (None, index, error_info)
TransformChunkWorker(chunk_data, chunk_index) ==
    IF StrategyRaises(chunk_data)
    THEN [data |-> EmptyFrame, chunk_index |-> chunk_index, error_type |-> "ValueError"]
    ELSE [data |-> StrategyTransform(chunk_data), chunk_index |-> chunk_index,
          error_type |-> "None"]

\* A plausible slip: the remainder rows are dropped instead of being spread
\* over the first partitions.
ArraySplitTruncating(frame, n) ==
    LET size == Len(frame) \div n
    IN [i \in 1..n |-> SubSeq(frame, (i - 1) * size + 1, i * size)]

\* A plausible slip: every partition after the first starts on the last row of
\* the partition before it.
ArraySplitOverlapping(frame, n) ==
    LET size == Len(frame) \div n
        extra == Len(frame) % n
        start(i) == (i - 1) * size + (IF i - 1 < extra THEN i - 1 ELSE extra)
    IN [i \in 1..n |-> SubSeq(frame, IF i > 1 /\ start(i) > 0 THEN start(i) ELSE start(i) + 1,
                              start(i + 1))]

\* np.array_split(frame, n): n contiguous partitions, the first Len % n of them
\* one row longer
ArraySplit(frame, n) ==
    LET size == Len(frame) \div n
        extra == Len(frame) % n
        start(i) == (i - 1) * size + (IF i - 1 < extra THEN i - 1 ELSE extra)
    IN [i \in 1..n |-> SubSeq(frame, start(i) + 1, start(i + 1))]

\* max_workers defaults to num_partitions
TransformPoolSize == num_partitions

TransformCallEmpty ==
    /\ trPc = "call"
    /\ Len(df) = 0
    /\ transformed_data' = EmptyFrame
    /\ trPc' = "returned"
    /\ UNCHANGED <<df, num_partitions, df_split, trTask, trSeen, results, stats, trOther>>

TransformSplit ==
    /\ trPc = "call"
    /\ Len(df) # 0
    /\ df_split' = ArraySplit(df, num_partitions)
    /\ trTask' = [i \in 1..num_partitions |-> [st |-> "none"]]
    /\ trPc' = "submit"
    /\ UNCHANGED <<df, num_partitions, trSeen, results, transformed_data, stats, trOther>>

TransformSubmit(i) ==
    /\ trPc = "submit"
    /\ i \in DOMAIN trTask
    /\ trTask[i].st = "none"
    /\ \A j \in 1..(i - 1) : trTask[j].st # "none"
    /\ trTask' = [trTask EXCEPT ![i].st = "queued"]
    /\ trPc' = IF i = Len(df_split) THEN "collect" ELSE "submit"
    /\ UNCHANGED <<df, num_partitions, df_split, trSeen, results, transformed_data,
                   stats, trOther>>

TransformTaskStart(i) ==
    /\ i \in DOMAIN trTask
    /\ trTask[i].st = "queued"
    /\ Cardinality(Running(trTask)) < TransformPoolSize
    /\ trTask' = [trTask EXCEPT ![i].st = "running"]
    /\ UNCHANGED <<df, num_partitions, df_split, trPc, trSeen, results, transformed_data,
                   stats, trOther>>

\* the worker returns its triple and the process pool hands it to the future
TransformWorkerReturn(i) ==
    /\ i \in DOMAIN trTask
    /\ trTask[i].st = "running"
    /\ trTask' = [trTask EXCEPT ![i] =
                     [st |-> "returned", ret |-> TransformChunkWorker(df_split[i], i - 1)]]
    /\ UNCHANGED <<df, num_partitions, df_split, trPc, trSeen, results, transformed_data,
                   stats, trOther>>

\* the process pool sets an exception on the future instead: the arguments or the
\* result cannot be pickled, or the pool broke
TransformFutureRaise(i) ==
    /\ trPc # "idle"
    /\ i \in DOMAIN trTask
    /\ trTask[i].st = "running"
    /\ trTask' = [trTask EXCEPT ![i] = [st |-> "raised"]]
    /\ UNCHANGED <<df, num_partitions, df_split, trPc, trSeen, results, transformed_data,
                   stats, trOther>>

TransformCollect(i) ==
    /\ trPc = "collect"
    /\ i \in DOMAIN trTask
    /\ i \notin trSeen
    /\ trTask[i].st \in {"returned", "raised"}
    /\ trSeen' = trSeen \cup {i}
    /\ IF trTask[i].st = "returned"
       THEN IF trTask[i].ret.error_type = "None"
            THEN /\ results' = Append(results, trTask[i].ret.data)
                 /\ UNCHANGED stats
            ELSE /\ stats' = StatsRecordError(stats, trTask[i].ret.error_type)
                 /\ UNCHANGED results
       ELSE UNCHANGED <<results, stats>>
    /\ UNCHANGED <<df, num_partitions, df_split, trPc, trTask, transformed_data, trOther>>

\* A plausible slip: the merge is not guarded by `if results`; pd.concat of an
\* empty list raises, so the call has no result when every partition failed.
TransformReturnUnguarded ==
    /\ trPc = "collect"
    /\ trSeen = DOMAIN trTask
    /\ Joined(trTask)
    /\ results # <<>>
    /\ transformed_data' = Concat(results)
    /\ trPc' = "returned"
    /\ UNCHANGED <<df, num_partitions, df_split, trTask, trSeen, results, stats, trOther>>

TransformReturn ==
    /\ trPc = "collect"
    /\ trSeen = DOMAIN trTask
    /\ Joined(trTask)
    /\ transformed_data' = IF results # <<>> THEN Concat(results) ELSE EmptyFrame
    /\ trPc' = "returned"
    /\ UNCHANGED <<df, num_partitions, df_split, trTask, trSeen, results, stats, trOther>>

\* the steps of a call on a non-empty record set
TransformSteps ==
    \/ TransformSplit
    \/ \E i \in DOMAIN trTask : TransformSubmit(i)
    \/ \E i \in DOMAIN trTask : TransformTaskStart(i)
    \/ \E i \in DOMAIN trTask : TransformWorkerReturn(i)
    \/ \E i \in DOMAIN trTask : TransformFutureRaise(i)
    \/ \E i \in DOMAIN trTask : TransformCollect(i)
    \/ TransformReturn

TransformNext == TransformCallEmpty \/ TransformSteps

\* ------------------------------------- the worker and Transform.process
\* One call of _transform_chunk_worker, made directly or by
\* TransformProcessor.process.  A value that may be None is [present, value].
None == [present |-> FALSE]
Some(v) == [present |-> TRUE, value |-> v]

\* the columns of a partition handed to Transform
ChunkColumns == {"date", "amount"}

\* what the strategy and then the hook do with the partition: the record set
\* they give, or the kind and message of the exception raised
ApplyStrategyAndHook(chunk_data, hook) ==
    IF StrategyRaises(chunk_data)
    THEN [error_type |-> "ValueError", error_message |-> "strategy", data |-> EmptyFrame]
    ELSE IF hook = "raises"
    THEN [error_type |-> "KeyError", error_message |-> "custom_transform", data |-> EmptyFrame]
    ELSE [error_type |-> "None", error_message |-> "", data |-> StrategyTransform(chunk_data)]

\* the error_info built by the except clause of the worker
ErrorInfo(outcome, chunk_data, chunk_index) ==
    [error_type |-> outcome.error_type,
     error_message |-> outcome.error_message,
     traceback |-> <<"_transform_chunk_worker", outcome.error_message>>,
     chunk_index |-> chunk_index,
     chunk_shape |-> <<Len(chunk_data), Cardinality(ChunkColumns)>>,
     chunk_columns |-> ChunkColumns,
     strategy |-> "DefaultSalesTransformStrategy"]

\* A plausible slip: the triple of a failed partition carries the placeholder
\* index instead of the one given.
WorkerTripleLosingIndex(chunk_data, chunk_index, hook) ==
    LET outcome == ApplyStrategyAndHook(chunk_data, hook)
    IN IF outcome.error_type = "None"
       THEN <<Some(outcome.data), chunk_index, None>>
       ELSE <<None, 0, Some(ErrorInfo(outcome, chunk_data, 0))>>

\* _transform_chunk_worker: (transformed_data, chunk_index, None), or
\* (None, chunk_index, error_info) from its except clause
WorkerTriple(chunk_data, chunk_index, hook) ==
    LET outcome == ApplyStrategyAndHook(chunk_data, hook)
    IN IF outcome.error_type = "None"
       THEN <<Some(outcome.data), chunk_index, None>>
       ELSE <<None, chunk_index, Some(ErrorInfo(outcome, chunk_data, chunk_index))>>

\* the worker called directly
TransformWorkerCall ==
    /\ tpPc = "start"
    /\ tpRet' = WorkerTriple(df_chunk, tpIndex, custom_transform)
    /\ tpPc' = "worker_returned"
    /\ UNCHANGED <<df_chunk, tpIndex, custom_transform, tpResult, stats, tpOther>>

\* process: result, _, error = _transform_chunk_worker(df_chunk, 0, ...)
TransformProcessCallsWorker ==
    /\ tpPc = "start"
    /\ tpRet' = WorkerTriple(df_chunk, 0, custom_transform)
    /\ tpPc' = "process"
    /\ UNCHANGED <<df_chunk, tpIndex, custom_transform, tpResult, stats, tpOther>>

\* process: no error, return result
TransformProcessReturn ==
    /\ tpPc = "process"
    /\ ~tpRet[3].present
    /\ tpResult' = [kind |-> "returned", data |-> tpRet[1]]
    /\ tpPc' = "returned"
    /\ UNCHANGED <<df_chunk, tpIndex, custom_transform, tpRet, stats, tpOther>>

\* process: if error: raise Exception(error); the except clause records
\* type(e).__name__ and re-raises
TransformProcessRaise ==
    /\ tpPc = "process"
    /\ tpRet[3].present
    /\ LET e == [type |-> "Exception", args |-> tpRet[3].value]
       IN /\ stats' = StatsRecordError(stats, e.type)
          /\ tpResult' = [kind |-> "raised", error |-> e]
    /\ tpPc' = "raised"
    /\ UNCHANGED <<df_chunk, tpIndex, custom_transform, tpRet, tpOther>>

TransformProcessNext ==
    \/ TransformWorkerCall
    \/ TransformProcessCallsWorker
    \/ TransformProcessReturn
    \/ TransformProcessRaise

\* ------------------------------------------- accounting transform strategy
\* AccountingTransformStrategy.transform.  Amounts are counted in units of 0.005,
\* so that sums differ by less than, by exactly and by more than the tolerance.

\* the tolerance 0.01 of the balance check, in units of 0.005
Tolerance == 2

Abs(x) == IF x < 0 THEN -x ELSE x

\* the date columns and the debit and credit columns of one row
AccountingRow(r) ==
    [voucher_id |-> r.voucher_id, date |-> r.date, direction |-> r.direction,
     amount |-> r.amount,
     year |-> DateYear(r.date), month |-> DateMonth(r.date), day |-> DateDay(r.date),
     period |-> DateYear(r.date) * 100 + DateMonth(r.date),
     debit_amount |-> IF r.direction = "debit" THEN r.amount ELSE 0,
     credit_amount |-> IF r.direction = "credit" THEN r.amount ELSE 0]

\* g['debit_amount'].sum() and g['credit_amount'].sum() of the group of voucher v
RECURSIVE VoucherSum(_, _, _)
VoucherSum(frame, v, column) ==
    IF frame = <<>> THEN 0
    ELSE (IF Head(frame).voucher_id = v THEN Head(frame)[column] ELSE 0)
             + VoucherSum(Tail(frame), v, column)

\* abs(g['debit_amount'].sum() - g['credit_amount'].sum()) < 0.01
BalanceCheck(frame, v) ==
    Abs(VoucherSum(frame, v, "debit_amount") - VoucherSum(frame, v, "credit_amount"))
        < Tolerance

\* the strategy on a record set with the columns voucher_id, date, direction,
\* amount: the row-wise columns, then is_balanced merged in by voucher_id
AccountingTransform(frame) ==
    LET rows == [k \in DOMAIN frame |-> AccountingRow(frame[k])]
    IN [k \in DOMAIN rows |->
           [voucher_id |-> rows[k].voucher_id, date |-> rows[k].date,
            direction |-> rows[k].direction, amount |-> rows[k].amount,
            year |-> rows[k].year, month |-> rows[k].month, day |-> rows[k].day,
            period |-> rows[k].period,
            debit_amount |-> rows[k].debit_amount,
            credit_amount |-> rows[k].credit_amount,
            is_balanced |-> BalanceCheck(rows, rows[k].voucher_id)]]

\* strategy.transform(df) is called and returns
AccountingTransformCall ==
    /\ acPc = "start"
    /\ acOut' = AccountingTransform(acDf)
    /\ acPc' = "returned"
    /\ UNCHANGED <<acDf, acParts, acMerged, acOther>>

\* TransformProcessor.process_concurrent(df, num_partitions, strategy_class =
\* AccountingTransformStrategy) on the same record set: np.array_split, one
\* worker per partition applying the strategy to its partition, and pd.concat of
\* the results in the order the futures completed
AccountingConcurrentCall ==
    /\ acPc = "returned"
    /\ \E n \in 1..MaxParts : \E order \in Permutations(1..n) :
          /\ acParts' = n
          /\ acMerged' = Concat([k \in 1..n |->
                                    AccountingTransform(ArraySplit(acDf, n)[order[k]])])
    /\ acPc' = "merged"
    /\ UNCHANGED <<acDf, acOut, acOther>>

AccountingNext == AccountingTransformCall \/ AccountingConcurrentCall

\* --------------------------------------------------------------------- Load
\* the dimensions LoadProcessor.process knows by name
NamedDimensions == {"store", "product", "date"}

\* the lock is free
Free == <<"free", 0>>

\* report['dimension'] of a Report Spec that has no such field
NoDimension == "<missing>"

\* a recipe is at hand: a named dimension, or groupby_cols and agg_dict both given
HasRecipe(report) == report.dimension \in NamedDimensions \/ report.recipe

LoadCallEmpty ==
    /\ ldPc = "call"
    /\ Len(ldDf) = 0
    /\ ldResults' = <<>>
    /\ ldPc' = "returned"
    /\ UNCHANGED <<ldDf, reports, ldTask, ldSeen, file_lock, stats, ldOther>>

\* dimension = report['dimension'], then executor.submit(self.process, ...)
LoadSubmit(i) ==
    /\ ldPc \in {"call", "submit"}
    /\ Len(ldDf) # 0
    /\ i \in DOMAIN reports
    /\ reports[i].dimension # NoDimension
    /\ ldTask[i].st = "none"
    /\ \A j \in 1..(i - 1) : ldTask[j].st # "none"
    /\ ldTask' = [ldTask EXCEPT ![i].st = "queued"]
    /\ ldPc' = IF i = Len(reports) THEN "collect" ELSE "submit"
    /\ UNCHANGED <<ldDf, reports, ldSeen, ldResults, file_lock, stats, ldOther>>

\* report['dimension'] raises KeyError in the submitting loop: the error leaves
\* the `with` block, nothing more is submitted
LoadSubmitRaise(i) ==
    /\ ldPc \in {"call", "submit"}
    /\ Len(ldDf) # 0
    /\ i \in DOMAIN reports
    /\ reports[i].dimension = NoDimension
    /\ ldTask[i].st = "none"
    /\ \A j \in 1..(i - 1) : ldTask[j].st # "none"
    /\ ldPc' = "unwinding"
    /\ UNCHANGED <<ldDf, reports, ldTask, ldSeen, ldResults, file_lock, stats, ldOther>>

\* the executor has shut down (the reports submitted before have run) and the
\* KeyError reaches the caller of process_concurrent: there is no result map
LoadRaise ==
    /\ ldPc = "unwinding"
    /\ Joined(ldTask)
    /\ ldPc' = "raised"
    /\ UNCHANGED <<ldDf, reports, ldTask, ldSeen, ldResults, file_lock, stats, ldOther>>

LoadSubmitNone ==
    /\ ldPc = "call"
    /\ Len(ldDf) # 0
    /\ reports = <<>>
    /\ ldPc' = "collect"
    /\ UNCHANGED <<ldDf, reports, ldTask, ldSeen, ldResults, file_lock, stats, ldOther>>

LoadTaskStart(i) ==
    /\ i \in DOMAIN ldTask
    /\ ldTask[i].st = "queued"
    /\ Cardinality(Running(ldTask)) < MaxWorkers
    /\ ldTask' = [ldTask EXCEPT ![i].st = "running"]
    /\ UNCHANGED <<ldDf, reports, ldPc, ldSeen, ldResults, file_lock, stats, ldOther>>

\* the except branch of process: the kind is recorded and False is returned
LoadExcept(task, kind) ==
    [task EXCEPT !.st = "done", !.at = "end", !.result = FALSE, !.error = kind]

\* the aggregation went through
LoadAggregateOk(i) ==
    /\ i \in DOMAIN ldTask
    /\ ldTask[i].st = "running"
    /\ ldTask[i].at = "aggregate"
    /\ HasRecipe(reports[i])
    /\ ldTask' = [ldTask EXCEPT ![i].at = "post_process"]
    /\ UNCHANGED <<ldDf, reports, ldPc, ldSeen, ldResults, file_lock, stats, ldOther>>

\* the aggregation raised: caught, recorded, False
LoadAggregateRaise(i) ==
    /\ i \in DOMAIN ldTask
    /\ ldTask[i].st = "running"
    /\ ldTask[i].at = "aggregate"
    /\ HasRecipe(reports[i])
    /\ stats' = StatsRecordError(stats, "KeyError")
    /\ ldTask' = [ldTask EXCEPT ![i] = LoadExcept(@, "KeyError")]
    /\ UNCHANGED <<ldDf, reports, ldPc, ldSeen, ldResults, file_lock, ldOther>>

\* no post_process was given, or it returned
LoadPostProcess(i) ==
    /\ i \in DOMAIN ldTask
    /\ ldTask[i].st = "running"
    /\ ldTask[i].at = "post_process"
    /\ ldTask' = [ldTask EXCEPT ![i].at = "lock"]
    /\ UNCHANGED <<ldDf, reports, ldPc, ldSeen, ldResults, file_lock, stats, ldOther>>

\* post_process raised: caught, recorded, False
LoadPostProcessRaise(i) ==
    /\ i \in DOMAIN ldTask
    /\ ldTask[i].st = "running"
    /\ ldTask[i].at = "post_process"
    /\ reports[i].post_process
    /\ stats' = StatsRecordError(stats, "ValueError")
    /\ ldTask' = [ldTask EXCEPT ![i] = LoadExcept(@, "ValueError")]
    /\ UNCHANGED <<ldDf, reports, ldPc, ldSeen, ldResults, file_lock, ldOther>>

\* neither a named dimension nor a generic recipe: logged, False
LoadUnknownDimension(i) ==
    /\ i \in DOMAIN ldTask
    /\ ldTask[i].st = "running"
    /\ ldTask[i].at = "aggregate"
    /\ ~HasRecipe(reports[i])
    /\ ldTask' = [ldTask EXCEPT ![i].st = "done", ![i].at = "end", ![i].result = FALSE]
    /\ UNCHANGED <<ldDf, reports, ldPc, ldSeen, ldResults, file_lock, stats, ldOther>>

\* A plausible slip: each report writes under a lock of its own.
LoadAcquireOwnLock(i) ==
    /\ i \in DOMAIN ldTask
    /\ ldTask[i].st = "running"
    /\ ldTask[i].at = "lock"
    /\ file_lock' = <<"load", i>>
    /\ ldTask' = [ldTask EXCEPT ![i].at = "write"]
    /\ UNCHANGED <<ldDf, reports, ldPc, ldSeen, ldResults, stats, ldOther>>

\* with file_lock: the one lock of config.constants, whatever the filename
LoadAcquireFileLock(i) ==
    /\ i \in DOMAIN ldTask
    /\ ldTask[i].st = "running"
    /\ ldTask[i].at = "lock"
    /\ file_lock = Free
    /\ file_lock' = <<"load", i>>
    /\ ldTask' = [ldTask EXCEPT ![i].at = "write"]
    /\ UNCHANGED <<ldDf, reports, ldPc, ldSeen, ldResults, stats, ldOther>>

\* A plausible slip: the write returns without giving the lock back.
LoadWriteOkKeepingLock(i) ==
    /\ i \in DOMAIN ldTask
    /\ ldTask[i].st = "running"
    /\ ldTask[i].at = "write"
    /\ ldTask' = [ldTask EXCEPT ![i].st = "done", ![i].at = "end", ![i].result = TRUE,
                                ![i].file = TRUE]
    /\ UNCHANGED <<ldDf, reports, ldPc, ldSeen, ldResults, file_lock, stats, ldOther>>

LoadWriteOk(i) ==
    /\ i \in DOMAIN ldTask
    /\ ldTask[i].st = "running"
    /\ ldTask[i].at = "write"
    /\ file_lock' = Free
    /\ ldTask' = [ldTask EXCEPT ![i].st = "done", ![i].at = "end", ![i].result = TRUE,
                                ![i].file = TRUE]
    /\ UNCHANGED <<ldDf, reports, ldPc, ldSeen, ldResults, stats, ldOther>>

\* A plausible slip: a failed write returns False without telling the Stats Sink.
LoadWriteRaiseUnrecorded(i) ==
    /\ i \in DOMAIN ldTask
    /\ ldTask[i].st = "running"
    /\ ldTask[i].at = "write"
    /\ file_lock' = Free
    /\ ldTask' = [ldTask EXCEPT ![i] = LoadExcept(@, "OSError")]
    /\ UNCHANGED <<ldDf, reports, ldPc, ldSeen, ldResults, stats, ldOther>>

\* the write raised: the lock is released, then caught, recorded, False
LoadWriteRaise(i) ==
    /\ i \in DOMAIN ldTask
    /\ ldTask[i].st = "running"
    /\ ldTask[i].at = "write"
    /\ file_lock' = Free
    /\ stats' = StatsRecordError(stats, "OSError")
    /\ ldTask' = [ldTask EXCEPT ![i] = LoadExcept(@, "OSError")]
    /\ UNCHANGED <<ldDf, reports, ldPc, ldSeen, ldResults, ldOther>>

\* A plausible slip: a failed report marks the whole map failed.
LoadStoreResultPoisoning(map, dimension, result) ==
    IF result
    THEN (dimension :> result) @@ map
    ELSE [d \in DOMAIN map \cup {dimension} |-> FALSE]

\* results[dimension] = result
LoadStoreResult(map, dimension, result) == (dimension :> result) @@ map

LoadCollect(i) ==
    /\ ldPc = "collect"
    /\ i \in DOMAIN ldTask
    /\ i \notin ldSeen
    /\ ldTask[i].st = "done"
    /\ ldSeen' = ldSeen \cup {i}
    /\ ldResults' = LoadStoreResult(ldResults, reports[i].dimension, ldTask[i].result)
    /\ UNCHANGED <<ldDf, reports, ldPc, ldTask, file_lock, stats, ldOther>>

LoadReturn ==
    /\ ldPc = "collect"
    /\ ldSeen = DOMAIN ldTask
    /\ Joined(ldTask)
    /\ ldPc' = "returned"
    /\ UNCHANGED <<ldDf, reports, ldTask, ldSeen, ldResults, file_lock, stats, ldOther>>

\* the steps of a call on a non-empty record set
LoadSteps ==
    \/ LoadSubmitNone
    \/ \E i \in DOMAIN ldTask : LoadSubmit(i)
    \/ \E i \in DOMAIN ldTask : LoadTaskStart(i)
    \/ \E i \in DOMAIN ldTask : LoadAggregateOk(i)
    \/ \E i \in DOMAIN ldTask : LoadAggregateRaise(i)
    \/ \E i \in DOMAIN ldTask : LoadPostProcess(i)
    \/ \E i \in DOMAIN ldTask : LoadPostProcessRaise(i)
    \/ \E i \in DOMAIN ldTask : LoadUnknownDimension(i)
    \/ \E i \in DOMAIN ldTask : LoadAcquireFileLock(i)
    \/ \E i \in DOMAIN ldTask : LoadWriteOk(i)
    \/ \E i \in DOMAIN ldTask : LoadWriteRaise(i)
    \/ \E i \in DOMAIN ldTask : LoadCollect(i)
    \/ LoadReturn

\* a call on its own may also be given a Report Spec without a dimension
LoadNext ==
    \/ LoadCallEmpty
    \/ \E i \in DOMAIN ldTask : LoadSubmitRaise(i)
    \/ LoadRaise
    \/ LoadSteps

\* any(results.values())
AnyTrue(map) == \E k \in DOMAIN map : map[k]

\* ------------------------------------------------------- the lock registry
\* A path is [abs, parts]: whether it starts at the root, and its components.
Cwd == <<"work">>

\* os.path.abspath, before normalization: a relative path is joined to the
\* working directory
AbsPath(file_path) ==
    IF file_path.abs THEN file_path
    ELSE [abs |-> TRUE, parts |-> Cwd \o file_path.parts]

RECURSIVE NormParts(_, _)
NormParts(parts, acc) ==
    IF parts = <<>> THEN acc
    ELSE IF Head(parts) = "." THEN NormParts(Tail(parts), acc)
    ELSE IF Head(parts) = ".."
         THEN NormParts(Tail(parts),
                        IF acc = <<>> THEN acc ELSE SubSeq(acc, 1, Len(acc) - 1))
    ELSE NormParts(Tail(parts), Append(acc, Head(parts)))

\* os.path.normpath of an absolute path: "." dropped, "x/.." collapsed
NormPath(file_path) == [abs |-> file_path.abs, parts |-> NormParts(file_path.parts, <<>>)]

\* A plausible slip: the registry is keyed by the path as given.
LockKeyRaw(file_path) == file_path

\* A plausible slip: one key, hence one lock, for every path.
LockKeyGlobal(file_path) == [abs |-> TRUE, parts |-> <<>>]

\* norm_path = os.path.normpath(os.path.abspath(file_path))
LockKey(file_path) == NormPath(AbsPath(file_path))

\* ------------------------------------------------------------------- Output
OutputCallEmpty ==
    /\ outPc = "call"
    /\ Len(outDf) = 0
    /\ outResults' = <<>>
    /\ outPc' = "returned"
    /\ UNCHANGED <<outDf, output_configs, outTask, outSeen, locks, manager_lock,
                   lockOwner, stats, outOther>>

OutputSubmit(i) ==
    /\ outPc \in {"call", "submit"}
    /\ Len(outDf) # 0
    /\ i \in DOMAIN output_configs
    /\ outTask[i].st = "none"
    /\ \A j \in 1..(i - 1) : outTask[j].st # "none"
    /\ outTask' = [outTask EXCEPT ![i].st = "queued"]
    /\ outPc' = IF i = Len(output_configs) THEN "collect" ELSE "submit"
    /\ UNCHANGED <<outDf, output_configs, outSeen, outResults, locks, manager_lock,
                   lockOwner, stats, outOther>>

OutputSubmitNone ==
    /\ outPc = "call"
    /\ Len(outDf) # 0
    /\ output_configs = <<>>
    /\ outPc' = "collect"
    /\ UNCHANGED <<outDf, output_configs, outTask, outSeen, outResults, locks,
                   manager_lock, lockOwner, stats, outOther>>

OutputTaskStart(i) ==
    /\ i \in DOMAIN outTask
    /\ outTask[i].st = "queued"
    /\ Cardinality(Running(outTask)) < MaxWorkers
    /\ outTask' = [outTask EXCEPT ![i].st = "running"]
    /\ UNCHANGED <<outDf, output_configs, outPc, outSeen, outResults, locks,
                   manager_lock, lockOwner, stats, outOther>>

\* get_lock: with self._manager_lock
GetLockEnter(i) ==
    /\ i \in DOMAIN outTask
    /\ outTask[i].st = "running"
    /\ outTask[i].at = "get_lock"
    /\ manager_lock = 0
    /\ manager_lock' = i
    /\ outTask' = [outTask EXCEPT ![i].at = "registry"]
    /\ UNCHANGED <<outDf, output_configs, outPc, outSeen, outResults, locks,
                   lockOwner, stats, outOther>>

\* A plausible slip: get_lock makes a new lock on every call.
GetLockReturnFresh(i) ==
    /\ i \in DOMAIN outTask
    /\ outTask[i].st = "running"
    /\ outTask[i].at = "registry"
    /\ manager_lock = i
    /\ LET norm_path == LockKey(output_configs[i].filename)
           fresh == Cardinality(DOMAIN lockOwner) + 1
       IN /\ locks' = (norm_path :> fresh) @@ locks
          /\ lockOwner' = (fresh :> 0) @@ lockOwner
          /\ outTask' = [outTask EXCEPT ![i].at = "acquire", ![i].lock = fresh]
    /\ manager_lock' = 0
    /\ UNCHANGED <<outDf, output_configs, outPc, outSeen, outResults, stats, outOther>>

\* get_lock: the lock of the path is created when it has none, and returned
GetLockReturn(i) ==
    /\ i \in DOMAIN outTask
    /\ outTask[i].st = "running"
    /\ outTask[i].at = "registry"
    /\ manager_lock = i
    /\ LET norm_path == LockKey(output_configs[i].filename)
           fresh == Cardinality(DOMAIN locks) + 1
       IN IF norm_path \notin DOMAIN locks
          THEN /\ locks' = (norm_path :> fresh) @@ locks
               /\ lockOwner' = (fresh :> 0) @@ lockOwner
               /\ outTask' = [outTask EXCEPT ![i].at = "acquire", ![i].lock = fresh]
          ELSE /\ UNCHANGED <<locks, lockOwner>>
               /\ outTask' = [outTask EXCEPT ![i].at = "acquire",
                                             ![i].lock = locks[norm_path]]
    /\ manager_lock' = 0
    /\ UNCHANGED <<outDf, output_configs, outPc, outSeen, outResults, stats, outOther>>

\* with file_lock_manager.get_lock(filename): the lock is taken
OutputAcquire(i) ==
    /\ i \in DOMAIN outTask
    /\ outTask[i].st = "running"
    /\ outTask[i].at = "acquire"
    /\ lockOwner[outTask[i].lock] = 0
    /\ lockOwner' = [lockOwner EXCEPT ![outTask[i].lock] = i]
    /\ outTask' = [outTask EXCEPT ![i].at = "write"]
    /\ UNCHANGED <<outDf, output_configs, outPc, outSeen, outResults, locks,
                   manager_lock, stats, outOther>>

\* the writer returned: the lock is released, the Stats Sink updated, True
OutputWriteOk(i) ==
    /\ i \in DOMAIN outTask
    /\ outTask[i].st = "running"
    /\ outTask[i].at = "write"
    /\ lockOwner' = [lockOwner EXCEPT ![outTask[i].lock] = 0]
    /\ stats' = StatsFileProcessed(stats, Len(outDf))
    /\ outTask' = [outTask EXCEPT ![i].st = "done", ![i].at = "end", ![i].result = TRUE]
    /\ UNCHANGED <<outDf, output_configs, outPc, outSeen, outResults, locks,
                   manager_lock, outOther>>

\* the writer raised: the lock is released, the error kind recorded, False
OutputWriteRaise(i) ==
    /\ i \in DOMAIN outTask
    /\ outTask[i].st = "running"
    /\ outTask[i].at = "write"
    /\ lockOwner' = [lockOwner EXCEPT ![outTask[i].lock] = 0]
    /\ stats' = StatsRecordError(stats, "OSError")
    /\ outTask' = [outTask EXCEPT ![i].st = "done", ![i].at = "end", ![i].result = FALSE]
    /\ UNCHANGED <<outDf, output_configs, outPc, outSeen, outResults, locks,
                   manager_lock, outOther>>

OutputCollect(i) ==
    /\ outPc = "collect"
    /\ i \in DOMAIN outTask
    /\ i \notin outSeen
    /\ outTask[i].st = "done"
    /\ outSeen' = outSeen \cup {i}
    /\ outResults' = (output_configs[i].filename :> outTask[i].result) @@ outResults
    /\ UNCHANGED <<outDf, output_configs, outPc, outTask, locks, manager_lock,
                   lockOwner, stats, outOther>>

OutputReturn ==
    /\ outPc = "collect"
    /\ outSeen = DOMAIN outTask
    /\ Joined(outTask)
    /\ outPc' = "returned"
    /\ UNCHANGED <<outDf, output_configs, outTask, outSeen, outResults, locks,
                   manager_lock, lockOwner, stats, outOther>>

\* the steps of a call on a non-empty record set with at least one Output Spec
OutputSteps ==
    \/ \E i \in DOMAIN outTask : OutputSubmit(i)
    \/ \E i \in DOMAIN outTask : OutputTaskStart(i)
    \/ \E i \in DOMAIN outTask : GetLockEnter(i)
    \/ \E i \in DOMAIN outTask : GetLockReturn(i)
    \/ \E i \in DOMAIN outTask : OutputAcquire(i)
    \/ \E i \in DOMAIN outTask : OutputWriteOk(i)
    \/ \E i \in DOMAIN outTask : OutputWriteRaise(i)
    \/ \E i \in DOMAIN outTask : OutputCollect(i)
    \/ OutputReturn

OutputNext == OutputCallEmpty \/ OutputSubmitNone \/ OutputSteps

\* the futures before they are submitted
NoTask == [st |-> "none", data |-> EmptyFrame]

\* error is the kind of the exception the call caught, file whether it wrote
\* its report file
NoLoadTask ==
    [st |-> "none", at |-> "aggregate", result |-> FALSE, error |-> NoError,
     file |-> FALSE]

NoOutputTask == [st |-> "none", at |-> "get_lock", lock |-> 0, result |-> FALSE]

\* ------------------------------------------------- contexts and Stats Sinks
\* Two orchestrators constructed separately, each with no context given or
\* with a context holding a Stats Sink of its own, and their runs.
Orchestrators == {"a", "b"}

\* config.constants.etl_stats, the Stats Sink ETLContext() falls back to
GlobalSink == "etl_stats"

\* ETLOrchestrator.__init__: self.context = context or ETLContext(), and
\* ETLContext.__init__: self.stats = etl_stats if stats is None else stats
ContextSink(o, given) == IF given THEN o ELSE GlobalSink

\* run: self.context.reset_stats()
OrchestratorRunStart(o) ==
    /\ orPc[o] = "constructed"
    /\ orPc' = [orPc EXCEPT ![o] = "running"]
    /\ sinkStats' = [sinkStats EXCEPT ![sinkOf[o]] = StatsReset]
    /\ orExpected' = [orExpected EXCEPT ![o] = StatsReset]
    /\ UNCHANGED <<sinkOf, orUnits, orRead, ctxOther>>

\* a unit of the run succeeded: stats.file_processed(path, rows)
OrchestratorUnitOk(o) ==
    /\ orPc[o] = "running"
    /\ orUnits[o] < MaxRunUnits
    /\ orUnits' = [orUnits EXCEPT ![o] = @ + 1]
    /\ sinkStats' = [sinkStats EXCEPT ![sinkOf[o]] = StatsFileProcessed(@, 1)]
    /\ orExpected' = [orExpected EXCEPT ![o] = StatsFileProcessed(@, 1)]
    /\ UNCHANGED <<sinkOf, orPc, orRead, ctxOther>>

\* a unit of the run failed: stats.record_error(kind)
OrchestratorUnitFails(o) ==
    /\ orPc[o] = "running"
    /\ orUnits[o] < MaxRunUnits
    /\ orUnits' = [orUnits EXCEPT ![o] = @ + 1]
    /\ sinkStats' = [sinkStats EXCEPT ![sinkOf[o]] = StatsRecordError(@, "ValueError")]
    /\ orExpected' = [orExpected EXCEPT ![o] = StatsRecordError(@, "ValueError")]
    /\ UNCHANGED <<sinkOf, orPc, orRead, ctxOther>>

\* run returns and its caller reads context.stats
OrchestratorRunEnd(o) ==
    /\ orPc[o] = "running"
    /\ orPc' = [orPc EXCEPT ![o] = "done"]
    /\ orRead' = [orRead EXCEPT ![o] = sinkStats[sinkOf[o]]]
    /\ UNCHANGED <<sinkOf, sinkStats, orUnits, orExpected, ctxOther>>

ContextNext ==
    \E o \in Orchestrators :
        \/ OrchestratorRunStart(o)
        \/ OrchestratorUnitOk(o)
        \/ OrchestratorUnitFails(o)
        \/ OrchestratorRunEnd(o)

\* ----------------------------------------------------------- Output.process
\* One call of OutputProcessor.process.  A filename is [dir, stem, ext]: dir is
\* os.path.dirname(filename), "" when the filename has no directory part.

\* output_config.get('filename') when there is none
NoFilename == [dir |-> "", stem |-> "", ext |-> ""]

\* A plausible slip: the global options are applied after the writer's options.
LayerParamsCommonLast(base_params, common_params, method_specific_params, output_specific_params) ==
    output_specific_params @@ common_params @@ method_specific_params @@ base_params

\* all_params = {**base_params}, then update() with the global options, the
\* options of the writer method and the options of the Output Spec, in this order
LayerParams(base_params, common_params, method_specific_params, output_specific_params) ==
    output_specific_params @@ method_specific_params @@ common_params @@ base_params

\* if writer_method in ['to_csv', 'to_excel'] and 'index' not in all_params:
\*     all_params['index'] = False
DefaultIndex(writer_method, params) ==
    IF writer_method \in {"to_csv", "to_excel"} /\ "index" \notin DOMAIN params
    THEN params @@ [index |-> "False"]
    ELSE params

\* kwargs.get(f'{writer_method}_params', {})
MethodParams(options, writer_method) ==
    IF writer_method \in DOMAIN options.method_params
    THEN options.method_params[writer_method]
    ELSE <<>>

\* the call goes to the except clause with error `kind`
OutputProcessFails(kind) ==
    /\ opExc' = kind
    /\ opPc' = "except"

\* filename = output_config.get('filename'); if not filename: raise ValueError
OutputProcessGetFilename ==
    /\ opPc = "start"
    /\ IF output_config.filename = NoFilename
       THEN OutputProcessFails("ValueError")
       ELSE opPc' = "makedirs" /\ UNCHANGED opExc
    /\ UNCHANGED <<opDf, output_config, opKwargs, all_params, opCalls, opResult, stats, opOther>>

\* os.makedirs(os.path.dirname(filename), exist_ok=True): os.makedirs('') raises
OutputProcessMakedirs ==
    /\ opPc = "makedirs"
    /\ IF output_config.filename.dir = ""
       THEN OutputProcessFails("FileNotFoundError")
       ELSE opPc' = "detect" /\ UNCHANGED opExc
    /\ UNCHANGED <<opDf, output_config, opKwargs, all_params, opCalls, opResult, stats, opOther>>

\* the directory cannot be created
OutputProcessMakedirsRaises ==
    /\ opPc = "makedirs"
    /\ output_config.filename.dir # ""
    /\ OutputProcessFails("OSError")
    /\ UNCHANGED <<opDf, output_config, opKwargs, all_params, opCalls, opResult, stats, opOther>>

\* format_info = detect_file_format(filename) and the layering of the parameters
OutputProcessDetectFormat ==
    /\ opPc = "detect"
    /\ LET format_info == DetectFileFormat(output_config.filename)
           writer_method == format_info.writer
       IN IF format_info.error = "None"
          THEN /\ all_params' =
                      DefaultIndex(writer_method,
                          LayerParams(format_info.params, opKwargs.common_params,
                                      MethodParams(opKwargs, writer_method),
                                      output_config.params))
               /\ opPc' = "write"
               /\ UNCHANGED opExc
          ELSE /\ OutputProcessFails(format_info.error)
               /\ UNCHANGED all_params
    /\ UNCHANGED <<opDf, output_config, opKwargs, opCalls, opResult, stats, opOther>>

\* the writer a call reaches
OutputWriterCall ==
    [fn |-> DetectFileFormat(output_config.filename).writer,
     path |-> output_config.filename, params |-> all_params]

\* with file_lock_manager.get_lock(filename): writer(filename, **all_params) returned
OutputProcessWriterReturns ==
    /\ opPc = "write"
    /\ opCalls' = Append(opCalls, OutputWriterCall @@ [done |-> TRUE])
    /\ opPc' = "account"
    /\ UNCHANGED <<opDf, output_config, opKwargs, all_params, opExc, opResult, stats, opOther>>

\* the writer raised (or the record set has no such writer)
OutputProcessWriterRaises ==
    /\ opPc = "write"
    /\ \E kind \in {"OSError", "ValueError"} :
          /\ opCalls' = Append(opCalls, OutputWriterCall @@ [done |-> FALSE])
          /\ OutputProcessFails(kind)
    /\ UNCHANGED <<opDf, output_config, opKwargs, all_params, opResult, stats, opOther>>

\* self.context.stats.file_processed(filename, len(df)); return True
OutputProcessFileProcessed ==
    /\ opPc = "account"
    /\ stats' = StatsFileProcessed(stats, Len(opDf))
    /\ opCalls' = Append(opCalls, [fn |-> "file_processed", path |-> output_config.filename,
                                   rows |-> Len(opDf)])
    /\ opResult' = "True"
    /\ opPc' = "returned"
    /\ UNCHANGED <<opDf, output_config, opKwargs, all_params, opExc, opOther>>

\* A plausible slip: a failed write is counted like a written file.
OutputProcessExceptCounting ==
    /\ opPc = "except"
    /\ stats' = StatsFileProcessed(StatsRecordError(stats, opExc), Len(opDf))
    /\ opCalls' = Append(opCalls, [fn |-> "record_error", kind |-> opExc])
    /\ opResult' = "False"
    /\ opPc' = "returned"
    /\ UNCHANGED <<opDf, output_config, opKwargs, all_params, opExc, opOther>>

\* except Exception as e: record_error(type(e).__name__); return False
OutputProcessExcept ==
    /\ opPc = "except"
    /\ stats' = StatsRecordError(stats, opExc)
    /\ opCalls' = Append(opCalls, [fn |-> "record_error", kind |-> opExc])
    /\ opResult' = "False"
    /\ opPc' = "returned"
    /\ UNCHANGED <<opDf, output_config, opKwargs, all_params, opExc, opOther>>

OutputProcessNext ==
    \/ OutputProcessGetFilename
    \/ OutputProcessMakedirs
    \/ OutputProcessMakedirsRaises
    \/ OutputProcessDetectFormat
    \/ OutputProcessWriterReturns
    \/ OutputProcessWriterRaises
    \/ OutputProcessFileProcessed
    \/ OutputProcessExcept

\* ------------------------------------------------------------- Orchestrator
\* ETLOrchestrator.run and ETLOrchestratorWithOutput.run.  runCfg.flow is "base"
\* for ETLOrchestrator.run (also when the extended run hands over to it:
\* output_configs is None and not skip_load) and "ext" for the extended flow.
\* The parameters of a stage are drawn when the run first reads them.

\* A plausible slip: an empty stage result does not stop the run.
StageFailedNever(frame) == FALSE

\* len(extracted_data) == 0, len(transformed_data) == 0
StageFailed(frame) == Len(frame) = 0

\* the reports of ETLOrchestrator.run when the caller gives none
DefaultReports ==
    <<[dimension |-> "store", recipe |-> FALSE, post_process |-> FALSE],
      [dimension |-> "product", recipe |-> FALSE, post_process |-> FALSE],
      [dimension |-> "date", recipe |-> FALSE, post_process |-> FALSE]>>

\* the file lists glob.glob finds
RunFileLists ==
    {<<>>, <<SourceFile(2, 2)>>, <<SourceFile(1, 2), SourceFile(2, 1)>>,
     <<SourceFile(3, 1), SourceFile(2, 1)>>, <<SourceFile(2, 1), SourceFile(1, 1)>>}

\* the values of transform_params['num_partitions']
RunPartitionCounts == {1, 2}

\* the values of the reports parameter; given = FALSE is None
RunReports ==
    {[given |-> FALSE, list |-> <<>>],
     [given |-> TRUE, list |-> <<>>],
     [given |-> TRUE, list |-> <<[dimension |-> "custom", recipe |-> FALSE, post_process |-> FALSE]>>],
     [given |-> TRUE, list |-> <<[dimension |-> "store", recipe |-> FALSE, post_process |-> TRUE],
                                 [dimension |-> "custom", recipe |-> FALSE, post_process |-> FALSE]>>]}

\* the values of the output_configs parameter; given = FALSE is None
RunOutputs ==
    {[given |-> FALSE, list |-> <<>>],
     [given |-> TRUE, list |-> <<>>],
     [given |-> TRUE, list |-> <<[filename |-> [abs |-> FALSE, parts |-> <<"out", "a.csv">>]]>>],
     [given |-> TRUE, list |-> <<[filename |-> [abs |-> FALSE, parts |-> <<"out", "a.csv">>]],
                                 [filename |-> [abs |-> FALSE, parts |-> <<"out", "b.csv">>]]>>]}

Concurrent == runCfg.processing_mode = "CONCURRENT"

\* the run returns `value`
RunReturns(value) ==
    /\ runRet' = value
    /\ runPc' = "returned"

\* which output_configs go with the flow taken: the extended flow is taken when
\* output_configs is not None or skip_load
OutputsAllowed(param) == param.given \/ runCfg.skip_load

\* the output_configs the run was called with (None reads as no Output Spec)
RunOutputConfigs ==
    IF runCfg.flow = "ext"
    THEN {param.list : param \in {q \in RunOutputs : OutputsAllowed(q)}}
    ELSE {<<>>}

\* self.context.reset_stats(), then glob.glob and the Extract stage
RunStart ==
    /\ runPc = "start"
    /\ stats' = StatsReset
    /\ output_configs' \in RunOutputConfigs
    /\ \E paths \in RunFileLists :
          /\ file_paths' = paths
          /\ exTask' = [i \in DOMAIN paths |-> NoTask]
    /\ IF Concurrent
       THEN exPc' = "submit" /\ runPc' = "extract_wait"
       ELSE exPc' = "idle" /\ runPc' = "extract_seq"
    /\ UNCHANGED <<callVars, exSeen, all_data, extracted_data, trVars, ldVars, outDf, outPc,
                   outTask, outSeen, outResults, locks, manager_lock, lockOwner,
                   runCfg, load_success, output_success, runRet>>

\* extracted_data = self.extractor.process_concurrent(...), then the check of its length
RunAfterExtract ==
    /\ runPc = "extract_wait"
    /\ exPc = "returned"
    /\ all_data' = <<>>
    /\ IF StageFailed(extracted_data)
       THEN RunReturns("False")
       ELSE runPc' = "transform" /\ UNCHANGED runRet
    /\ UNCHANGED <<callVars, file_paths, exPc, exTask, exSeen, extracted_data, trVars, ldVars,
                   outVars, runCfg, load_success, output_success, stats>>

\* sequential mode: df = self.extractor.process(file_path) for the next file
RunSeqExtractCall(i) ==
    /\ runPc = "extract_seq"
    /\ i \in DOMAIN exTask
    /\ exTask[i].st = "none"
    /\ \A j \in 1..(i - 1) : j \in exSeen
    /\ exTask' = [exTask EXCEPT ![i].st = "running"]
    /\ UNCHANGED <<callVars, file_paths, exPc, exSeen, all_data, extracted_data, trVars, ldVars,
                   outVars, runVars, stats>>

\* sequential mode: process returned (all_data.append) or raised (run's except: False)
RunSeqExtractResult(i) ==
    /\ runPc = "extract_seq"
    /\ i \in DOMAIN exTask
    /\ i \notin exSeen
    /\ exTask[i].st \in {"done", "failed"}
    /\ exSeen' = exSeen \cup {i}
    /\ IF exTask[i].st = "done"
       THEN /\ all_data' = Append(all_data, exTask[i].data)
            /\ UNCHANGED <<callVars, runPc, runRet>>
       ELSE /\ all_data' = <<>>
            /\ RunReturns("False")
    /\ UNCHANGED <<callVars, file_paths, exPc, exTask, extracted_data, trVars, ldVars, outVars,
                   runCfg, load_success, output_success, stats>>

\* sequential mode: the loop is over; pd.concat, then the check of its length
RunSeqExtractDone ==
    /\ runPc = "extract_seq"
    /\ exSeen = DOMAIN exTask
    /\ LET merged == IF all_data # <<>> THEN Concat(all_data) ELSE EmptyFrame
       IN /\ extracted_data' = merged
          /\ IF StageFailed(merged)
             THEN RunReturns("False")
             ELSE runPc' = "transform" /\ UNCHANGED runRet
    /\ all_data' = <<>>
    /\ UNCHANGED <<callVars, file_paths, exPc, exTask, exSeen, trVars, ldVars, outVars,
                   runCfg, load_success, output_success, stats>>

\* the Transform stage starts: process_concurrent, or np.array_split and the loop
RunTransformCall ==
    /\ runPc = "transform"
    /\ df' = extracted_data
    /\ \E n \in RunPartitionCounts :
          /\ num_partitions' = n
          /\ IF Concurrent
             THEN /\ trPc' = "call"
                  /\ runPc' = "transform_wait"
                  /\ UNCHANGED <<callVars, df_split, trTask>>
             ELSE /\ trPc' = "idle"
                  /\ runPc' = "transform_seq"
                  /\ df_split' = ArraySplit(extracted_data, n)
                  /\ trTask' = [i \in 1..n |-> [st |-> "none"]]
    /\ UNCHANGED <<callVars, trSeen, results, transformed_data, exVars, ldVars, outVars,
                   runCfg, load_success, output_success, runRet, stats>>

\* where the run goes once Transform gave a non-empty record set
AfterTransformPc(save) == IF save THEN "save" ELSE "load"

\* transformed_data = self.transformer.process_concurrent(...), then the check of
\* its length and of transform_params['save_transformed']
RunAfterTransform ==
    /\ runPc = "transform_wait"
    /\ trPc = "returned"
    /\ results' = <<>>
    /\ IF StageFailed(transformed_data)
       THEN RunReturns("False")
       ELSE /\ \E save \in BOOLEAN : runPc' = AfterTransformPc(save)
            /\ UNCHANGED runRet
    /\ UNCHANGED <<callVars, df, num_partitions, df_split, trPc, trTask, trSeen, transformed_data,
                   exVars, ldVars, outVars, runCfg, load_success, output_success, stats>>

\* sequential mode: self.transformer.process(chunk) for the next partition
RunSeqTransformCall(i) ==
    /\ runPc = "transform_seq"
    /\ i \in DOMAIN trTask
    /\ trTask[i].st = "none"
    /\ \A j \in 1..(i - 1) : j \in trSeen
    /\ trTask' = [trTask EXCEPT ![i].st = "running"]
    /\ UNCHANGED <<callVars, df, num_partitions, df_split, trPc, trSeen, results, transformed_data,
                   exVars, ldVars, outVars, runVars, stats>>

\* A plausible slip: the error of a partition is swallowed and the loop goes on.
RunSeqTransformResultSwallowing(i) ==
    /\ runPc = "transform_seq"
    /\ i \in DOMAIN trTask
    /\ i \notin trSeen
    /\ trTask[i].st = "returned"
    /\ trSeen' = trSeen \cup {i}
    /\ IF trTask[i].ret.error_type = "None"
       THEN /\ results' = Append(results, trTask[i].ret.data)
            /\ UNCHANGED stats
       ELSE /\ UNCHANGED results
            /\ stats' = StatsRecordError(stats, "Exception")
    /\ UNCHANGED <<callVars, runPc, runRet, df, num_partitions, df_split, trPc, trTask,
                   transformed_data, exVars, ldVars, outVars, runCfg, load_success,
                   output_success>>

\* sequential mode: TransformProcessor.process returns the worker's result, or
\* raises Exception(error), records its kind and re-raises (run's except: False)
RunSeqTransformResult(i) ==
    /\ runPc = "transform_seq"
    /\ i \in DOMAIN trTask
    /\ i \notin trSeen
    /\ trTask[i].st = "returned"
    /\ trSeen' = trSeen \cup {i}
    /\ IF trTask[i].ret.error_type = "None"
       THEN /\ results' = Append(results, trTask[i].ret.data)
            /\ UNCHANGED <<callVars, runPc, runRet, stats>>
       ELSE /\ results' = <<>>
            /\ stats' = StatsRecordError(stats, "Exception")
            /\ RunReturns("False")
    /\ UNCHANGED <<callVars, df, num_partitions, df_split, trPc, trTask, transformed_data,
                   exVars, ldVars, outVars, runCfg, load_success, output_success>>

\* sequential mode: the loop is over; pd.concat, then the checks
RunSeqTransformDone ==
    /\ runPc = "transform_seq"
    /\ trSeen = DOMAIN trTask
    /\ LET merged == IF results # <<>> THEN Concat(results) ELSE EmptyFrame
       IN /\ transformed_data' = merged
          /\ IF StageFailed(merged)
             THEN RunReturns("False")
             ELSE /\ \E save \in BOOLEAN : runPc' = AfterTransformPc(save)
                  /\ UNCHANGED runRet
    /\ results' = <<>>
    /\ UNCHANGED <<callVars, df, num_partitions, df_split, trPc, trTask, trSeen,
                   exVars, ldVars, outVars, runCfg, load_success, output_success, stats>>

\* with file_lock: transformed_data.to_csv(save_path) -- the lock is taken
RunSaveAcquire ==
    /\ runPc = "save"
    /\ file_lock = Free
    /\ file_lock' = <<"run", 0>>
    /\ runPc' = "saving"
    /\ UNCHANGED <<callVars, ldDf, reports, ldPc, ldTask, ldSeen, ldResults, exVars, trVars,
                   outVars, runCfg, load_success, output_success, runRet, stats>>

\* the side file is written
RunSaveOk ==
    /\ runPc = "saving"
    /\ file_lock' = Free
    /\ runPc' = "load"
    /\ UNCHANGED <<callVars, ldDf, reports, ldPc, ldTask, ldSeen, ldResults, exVars, trVars,
                   outVars, runCfg, load_success, output_success, runRet, stats>>

\* to_csv raised: run's except returns False
RunSaveRaise ==
    /\ runPc = "saving"
    /\ file_lock' = Free
    /\ RunReturns("False")
    /\ UNCHANGED <<callVars, ldDf, reports, ldPc, ldTask, ldSeen, ldResults, exVars, trVars,
                   outVars, runCfg, load_success, output_success, stats>>

\* the reports the Load stage works on: the caller's, or the default ones of
\* ETLOrchestrator.run
ReportsOf(param) ==
    IF runCfg.flow = "base" /\ ~param.given THEN DefaultReports ELSE param.list

\* whether the Load stage runs: always in ETLOrchestrator.run; in the extended
\* flow, if not skip_load and reports
LoadRuns(param) ==
    runCfg.flow = "base" \/ (~runCfg.skip_load /\ param.list # <<>>)

\* the Load stage starts: process_concurrent, or the loop over the reports
RunLoadCall ==
    /\ runPc = "load"
    /\ \E param \in RunReports :
          /\ LoadRuns(param)
          /\ reports' = ReportsOf(param)
          /\ ldTask' = [i \in DOMAIN ReportsOf(param) |-> NoLoadTask]
    /\ ldDf' = transformed_data
    /\ IF Concurrent
       THEN ldPc' = "call" /\ runPc' = "load_wait"
       ELSE ldPc' = "idle" /\ runPc' = "load_seq"
    /\ UNCHANGED <<callVars, ldSeen, ldResults, file_lock, exVars, trVars, outVars,
                   runCfg, load_success, output_success, runRet, stats>>

\* the extended flow skips the Load stage
RunLoadSkip ==
    /\ runPc = "load"
    /\ \E param \in RunReports : ~LoadRuns(param)
    /\ runPc' = "output"
    /\ UNCHANGED <<callVars, exVars, trVars, ldVars, outVars, runCfg, load_success,
                   output_success, runRet, stats>>

\* A plausible slip: the extended flow too returns False when no report succeeded.
LoadStageEndsFatal(map) ==
    /\ load_success' = AnyTrue(map)
    /\ IF runCfg.flow = "base" \/ ~AnyTrue(map)
       THEN RunReturns(IF AnyTrue(map) THEN "True" ELSE "False")
       ELSE runPc' = "output" /\ UNCHANGED runRet

\* load_success = any(results.values()); ETLOrchestrator.run returns on it, the
\* extended flow goes on to Output whatever it is
LoadStageEnds(map) ==
    /\ load_success' = AnyTrue(map)
    /\ IF runCfg.flow = "base"
       THEN RunReturns(IF AnyTrue(map) THEN "True" ELSE "False")
       ELSE runPc' = "output" /\ UNCHANGED runRet

RunAfterLoad ==
    /\ runPc = "load_wait"
    /\ ldPc = "returned"
    /\ LoadStageEnds(ldResults)
    /\ UNCHANGED <<callVars, exVars, trVars, ldVars, outVars, runCfg, output_success, stats>>

\* sequential mode: self.loader.process(...) for the next report
RunSeqLoadCall(i) ==
    /\ runPc = "load_seq"
    /\ i \in DOMAIN ldTask
    /\ ldTask[i].st = "none"
    /\ \A j \in 1..(i - 1) : j \in ldSeen
    /\ ldTask' = [ldTask EXCEPT ![i].st = "running"]
    /\ UNCHANGED <<callVars, ldDf, reports, ldPc, ldSeen, ldResults, file_lock, exVars, trVars,
                   outVars, runVars, stats>>

\* sequential mode: results[dimension] = result
RunSeqLoadResult(i) ==
    /\ runPc = "load_seq"
    /\ i \in DOMAIN ldTask
    /\ i \notin ldSeen
    /\ ldTask[i].st = "done"
    /\ ldSeen' = ldSeen \cup {i}
    /\ ldResults' = LoadStoreResult(ldResults, reports[i].dimension, ldTask[i].result)
    /\ UNCHANGED <<callVars, ldDf, reports, ldPc, ldTask, file_lock, exVars, trVars,
                   outVars, runVars, stats>>

RunSeqLoadDone ==
    /\ runPc = "load_seq"
    /\ ldSeen = DOMAIN ldTask
    /\ LoadStageEnds(ldResults)
    /\ UNCHANGED <<callVars, exVars, trVars, ldVars, outVars, runCfg, output_success, stats>>

\* A plausible slip: with Output Specs given, only the Output stage counts.
RunResultOutputOnly(configs, load_ok, output_ok) ==
    IF configs # <<>> THEN output_ok ELSE load_ok

\* the value the extended run returns
RunResult(configs, load_ok, output_ok) ==
    IF runCfg.skip_load /\ configs # <<>> THEN output_ok
    ELSE IF configs # <<>> THEN load_ok /\ output_ok
    ELSE load_ok

BoolName(b) == IF b THEN "True" ELSE "False"

\* the Output stage starts: process_concurrent, or the loop over output_configs
RunOutputCall ==
    /\ runPc = "output"
    /\ output_configs # <<>>
    /\ outTask' = [i \in DOMAIN output_configs |-> NoOutputTask]
    /\ outDf' = transformed_data
    /\ IF Concurrent
       THEN outPc' = "call" /\ runPc' = "output_wait"
       ELSE outPc' = "idle" /\ runPc' = "output_seq"
    /\ UNCHANGED <<callVars, output_configs, outSeen, outResults, locks, manager_lock, lockOwner,
                   exVars, trVars, ldVars, runCfg, load_success, output_success,
                   runRet, stats>>

\* no output_configs: the Output stage is skipped and the run returns
RunOutputSkip ==
    /\ runPc = "output"
    /\ output_configs = <<>>
    /\ RunReturns(BoolName(RunResult(output_configs, load_success, output_success)))
    /\ UNCHANGED <<callVars, exVars, trVars, ldVars, outVars, runCfg, load_success,
                   output_success, stats>>

\* output_success = any(output_results.values()), and the value returned
OutputStageEnds(map) ==
    /\ output_success' = AnyTrue(map)
    /\ RunReturns(BoolName(RunResult(output_configs, load_success, AnyTrue(map))))

RunAfterOutput ==
    /\ runPc = "output_wait"
    /\ outPc = "returned"
    /\ OutputStageEnds(outResults)
    /\ UNCHANGED <<callVars, exVars, trVars, ldVars, outVars, runCfg, load_success, stats>>

\* sequential mode: self.outputter.process(...) for the next Output Spec
RunSeqOutputCall(i) ==
    /\ runPc = "output_seq"
    /\ i \in DOMAIN outTask
    /\ outTask[i].st = "none"
    /\ \A j \in 1..(i - 1) : j \in outSeen
    /\ outTask' = [outTask EXCEPT ![i].st = "running"]
    /\ UNCHANGED <<callVars, outDf, output_configs, outPc, outSeen, outResults, locks,
                   manager_lock, lockOwner, exVars, trVars, ldVars, runVars, stats>>

\* sequential mode: output_results[config.get('filename', 'unknown')] = result
RunSeqOutputResult(i) ==
    /\ runPc = "output_seq"
    /\ i \in DOMAIN outTask
    /\ i \notin outSeen
    /\ outTask[i].st = "done"
    /\ outSeen' = outSeen \cup {i}
    /\ outResults' = (output_configs[i].filename :> outTask[i].result) @@ outResults
    /\ UNCHANGED <<callVars, outDf, output_configs, outPc, outTask, locks, manager_lock,
                   lockOwner, exVars, trVars, ldVars, runVars, stats>>

RunSeqOutputDone ==
    /\ runPc = "output_seq"
    /\ outSeen = DOMAIN outTask
    /\ OutputStageEnds(outResults)
    /\ UNCHANGED <<callVars, exVars, trVars, ldVars, outVars, runCfg, load_success, stats>>

RunNext ==
    \/ RunStart
    \/ RunAfterExtract
    \/ \E i \in DOMAIN exTask : RunSeqExtractCall(i)
    \/ \E i \in DOMAIN exTask : RunSeqExtractResult(i)
    \/ RunSeqExtractDone
    \/ RunTransformCall
    \/ RunAfterTransform
    \/ \E i \in DOMAIN trTask : RunSeqTransformCall(i)
    \/ \E i \in DOMAIN trTask : RunSeqTransformResult(i)
    \/ RunSeqTransformDone
    \/ RunSaveAcquire
    \/ RunSaveOk
    \/ RunSaveRaise
    \/ RunLoadCall
    \/ RunLoadSkip
    \/ RunAfterLoad
    \/ \E i \in DOMAIN ldTask : RunSeqLoadCall(i)
    \/ \E i \in DOMAIN ldTask : RunSeqLoadResult(i)
    \/ RunSeqLoadDone
    \/ RunOutputCall
    \/ RunOutputSkip
    \/ RunAfterOutput
    \/ \E i \in DOMAIN outTask : RunSeqOutputCall(i)
    \/ \E i \in DOMAIN outTask : RunSeqOutputResult(i)
    \/ RunSeqOutputDone

\* A run calls Transform, Load and Output on a non-empty record set only (the
\* checks of len(extracted_data) and len(transformed_data)), and Output only
\* `if output_configs`: the empty-call branches of the stages are no step of it.
Next == RunNext \/ ExtractNext \/ TransformSteps \/ LoadSteps \/ OutputSteps

\* ------------------------------------------------------------------ locking
\* The locks of the program and, for each kind of call, the `with` blocks on a
\* lock the call goes through, in the order of the code.  A thread runs one
\* call; entering a `with` block waits for the lock, leaving it gives it back.
MaxLockThreads == 2

LockThreads == 1..MaxLockThreads

\* config.constants.log_lock and file_lock, FileLockManager._manager_lock, and
\* the locks the registry holds for two paths
Locks == {"log_lock", "file_lock", "_manager_lock", "lock:out/a.csv", "lock:out/b.csv"}

PathLocks == {"lock:out/a.csv", "lock:out/b.csv"}

\* with lock: ... , a block that takes no other lock inside
With(lock) == <<[op |-> "acquire", lock |-> lock], [op |-> "release", lock |-> lock]>>

\* Extract.process: the log entry at its start, and the one at its end
ExtractProcessLocks == With("log_lock") \o With("log_lock")

\* A plausible slip: the log entry of the finished report is written inside
\* the file-writing section.
LoadProcessLocksNested ==
    With("log_lock")
        \o <<[op |-> "acquire", lock |-> "file_lock"]>> \o With("log_lock")
        \o <<[op |-> "release", lock |-> "file_lock"]>>

\* Load.process: log entry, the write under the shared file lock, log entry
LoadProcessLocks == With("log_lock") \o With("file_lock") \o With("log_lock")

\* Output.process: get_lock works under the registry lock and returns; then
\* the write under the lock it returned (Output.process logs without log_lock)
OutputProcessLocks(path_lock) == With("_manager_lock") \o With(path_lock)

\* a process_concurrent: the log entries of its collecting loop and of its end
ProcessConcurrentLocks == With("log_lock") \o With("log_lock") \o With("log_lock")

\* run: log entries, the save of the transformed record set under the shared
\* file lock, log entries
RunLocks == With("log_lock") \o With("log_lock") \o With("file_lock") \o With("log_lock")

LockPrograms ==
    {ExtractProcessLocks, LoadProcessLocks, ProcessConcurrentLocks, RunLocks}
        \cup {OutputProcessLocks(l) : l \in PathLocks}

\* the locks a thread holds
HeldBy(t) == {l \in Locks : lkHolder[l] = t}

\* the thread has lock operations left
LockBusy(t) == lkAt[t] <= Len(lkProg[t])

\* the thread enters a `with` block: it waits until the lock is free
LockAcquire(t) ==
    /\ t \in DOMAIN lkProg
    /\ LockBusy(t)
    /\ lkProg[t][lkAt[t]].op = "acquire"
    /\ lkHolder[lkProg[t][lkAt[t]].lock] = 0
    /\ lkHolder' = [lkHolder EXCEPT ![lkProg[t][lkAt[t]].lock] = t]
    /\ lkAt' = [lkAt EXCEPT ![t] = @ + 1]
    /\ UNCHANGED <<lkProg, exVars, trVars, ldVars, outVars, runVars, stats, prVars, acVars,
                   opVars, ctxVars, skVars, tpVars, detVars>>

\* the thread leaves the `with` block
LockRelease(t) ==
    /\ t \in DOMAIN lkProg
    /\ LockBusy(t)
    /\ lkProg[t][lkAt[t]].op = "release"
    /\ lkHolder' = [lkHolder EXCEPT ![lkProg[t][lkAt[t]].lock] = 0]
    /\ lkAt' = [lkAt EXCEPT ![t] = @ + 1]
    /\ UNCHANGED <<lkProg, exVars, trVars, ldVars, outVars, runVars, stats, prVars, acVars,
                   opVars, ctxVars, skVars, tpVars, detVars>>

LockNext == \E t \in LockThreads : LockAcquire(t) \/ LockRelease(t)

\* ------------------------------------------------------- initial states
RECURSIVE ListsUpTo(_, _)
\* the lists of at most n elements of S
ListsUpTo(S, n) ==
    IF n = 0 THEN {<<>>}
    ELSE LET shorter == ListsUpTo(S, n - 1)
         IN shorter \cup {Append(l, x) : l \in {g \in shorter : Len(g) = n - 1}, x \in S}

\* the rows a record set handed to Transform is made of; the last date is no date
InputRows ==
    {[date |-> 20240131, amount |-> 1], [date |-> 20240229, amount |-> 2],
     [date |-> 20240230, amount |-> 3]}

\* the record sets handed to Load and Output: none, or a transformed one
TransformedFrames == {EmptyFrame, StrategyTransform(<<[date |-> 20240131, amount |-> 1]>>)}

\* the Report Specs a caller passes: a named dimension, a custom dimension with
\* groupby_cols, agg_dict and a post_process hook, a custom dimension without
\* them, and a spec that has no dimension
ReportSpecs ==
    {[dimension |-> "store", recipe |-> FALSE, post_process |-> FALSE],
     [dimension |-> "custom", recipe |-> TRUE, post_process |-> TRUE],
     [dimension |-> "custom", recipe |-> FALSE, post_process |-> FALSE],
     [dimension |-> NoDimension, recipe |-> FALSE, post_process |-> FALSE]}

\* the filenames a caller passes: two spellings of out/a.csv, and out/b.csv
OutputPaths ==
    {[abs |-> FALSE, parts |-> <<"out", "a.csv">>],
     [abs |-> FALSE, parts |-> <<"out", "tmp", "..", "a.csv">>],
     [abs |-> FALSE, parts |-> <<"out", "b.csv">>]}

OutputSpecs == {[filename |-> f] : f \in OutputPaths}

ExtractIdle ==
    /\ file_paths = <<>>
    /\ exPc = "idle"
    /\ exTask = <<>>
    /\ exSeen = {}
    /\ all_data = <<>>
    /\ extracted_data = EmptyFrame

TransformIdle ==
    /\ df = EmptyFrame
    /\ num_partitions = 1
    /\ df_split = <<>>
    /\ trPc = "idle"
    /\ trTask = <<>>
    /\ trSeen = {}
    /\ results = <<>>
    /\ transformed_data = EmptyFrame

LoadIdle ==
    /\ ldDf = EmptyFrame
    /\ reports = <<>>
    /\ ldPc = "idle"
    /\ ldTask = <<>>
    /\ ldSeen = {}
    /\ ldResults = <<>>
    /\ file_lock = Free

OutputIdle ==
    /\ outDf = EmptyFrame
    /\ output_configs = <<>>
    /\ outPc = "idle"
    /\ outTask = <<>>
    /\ outSeen = {}
    /\ outResults = <<>>
    /\ locks = <<>>
    /\ manager_lock = 0
    /\ lockOwner = <<>>

RunIdle ==
    /\ runPc = "idle"
    /\ runCfg = [flow |-> "none", processing_mode |-> "CONCURRENT", skip_load |-> FALSE]
    /\ load_success = TRUE
    /\ output_success = TRUE
    /\ runRet = "none"

\* ExtractProcessor.process_concurrent called on its own
AccountingIdle ==
    /\ acPc = "idle"
    /\ acDf = EmptyFrame
    /\ acOut = EmptyFrame
    /\ acParts = 0
    /\ acMerged = EmptyFrame

ContextIdle ==
    /\ sinkOf = [o \in Orchestrators |-> GlobalSink]
    /\ sinkStats = [k \in Orchestrators \cup {GlobalSink} |-> StatsReset]
    /\ orPc = [o \in Orchestrators |-> "none"]
    /\ orUnits = [o \in Orchestrators |-> 0]
    /\ orExpected = [o \in Orchestrators |-> StatsReset]
    /\ orRead = [o \in Orchestrators |-> StatsReset]

TransformProcessIdle ==
    /\ tpPc = "idle"
    /\ df_chunk = EmptyFrame
    /\ tpIndex = 0
    /\ custom_transform = "none"
    /\ tpRet = <<None, 0, None>>
    /\ tpResult = [kind |-> "none"]

LocksIdle ==
    /\ lkProg = <<>>
    /\ lkAt = <<>>
    /\ lkHolder = <<>>

DetectIdle ==
    /\ detPc = "idle"
    /\ detPath = [dir |-> <<>>, base |-> <<"">>]
    /\ detResult = DetectFileFormat(Unbound)

SinkIdle ==
    /\ sinkLock = 0
    /\ exPending = <<>>

OutputProcessIdle ==
    /\ opPc = "idle"
    /\ opDf = EmptyFrame
    /\ output_config = [filename |-> NoFilename, params |-> <<>>]
    /\ opKwargs = [common_params |-> <<>>, method_params |-> <<>>]
    /\ all_params = <<>>
    /\ opExc = "None"
    /\ opCalls = <<>>
    /\ opResult = "none"

\* the paths a caller passes
SourcePaths ==
    {[stem |-> "sales", ext |-> e] : e \in {"csv", "CSV", "xlsx", "json", "unsupported", ""}}

\* a path string, a record holding a path, a record without one
FileInfos ==
    {[kind |-> "str", has_path |-> TRUE, path |-> p] : p \in SourcePaths}
        \cup {[kind |-> "dict", has_path |-> TRUE, path |-> p] : p \in SourcePaths}
        \cup {[kind |-> "dict", has_path |-> FALSE, path |-> Unbound]}

\* the options a caller passes on to the reader
CallerOptions ==
    {<<>>, [custom_arg |-> "value"], [engine |-> "xlrd"],
     [engine |-> "xlrd", custom_arg |-> "value"], [orient |-> "split"]}

ProcessIdle ==
    /\ prPc = "idle"
    /\ file_info = [kind |-> "str", has_path |-> TRUE, path |-> Unbound]
    /\ kwargs = <<>>
    /\ prFilePath = Unbound
    /\ reader_params = <<>>
    /\ prDf = NoFrame
    /\ prExc = "None"
    /\ prCalls = <<>>
    /\ prResult = [kind |-> "none", error |-> "None", data |-> NoFrame]

\* one call of ExtractProcessor.process on a fresh Stats Sink
InitProcess ==
    /\ prPc = "start"
    /\ file_info \in FileInfos
    /\ kwargs \in CallerOptions
    /\ prFilePath = Unbound
    /\ reader_params = <<>>
    /\ prDf = NoFrame
    /\ prExc = "None"
    /\ prCalls = <<>>
    /\ prResult = [kind |-> "none", error |-> "None", data |-> NoFrame]
    /\ stats = StatsReset
    /\ ExtractIdle /\ TransformIdle /\ LoadIdle /\ OutputIdle /\ RunIdle /\ AccountingIdle
    /\ OutputProcessIdle /\ ContextIdle /\ SinkIdle /\ TransformProcessIdle /\ DetectIdle /\ LocksIdle

SpecProcess == InitProcess /\ [][ProcessNext]_vars

\* the vouchers, directions and amounts (in units of 0.005) of the rows given
\* to the accounting strategy
VoucherRows ==
    {[voucher_id |-> v, date |-> 20240131, direction |-> d, amount |-> a] :
        v \in 1..2, d \in {"debit", "credit"}, a \in 0..MaxAmount}

\* one call of the accounting strategy on a record set of at least one row
InitAccounting ==
    /\ acPc = "start"
    /\ acDf \in ListsUpTo(VoucherRows, MaxVoucherRows) \ {<<>>}
    /\ acOut = EmptyFrame
    /\ acParts = 0
    /\ acMerged = EmptyFrame
    /\ stats = StatsReset
    /\ ExtractIdle /\ TransformIdle /\ LoadIdle /\ OutputIdle /\ RunIdle /\ ProcessIdle
    /\ OutputProcessIdle /\ ContextIdle /\ SinkIdle /\ TransformProcessIdle /\ DetectIdle /\ LocksIdle

SpecAccounting == InitAccounting /\ [][AccountingNext]_vars

\* two orchestrators after their construction, each with or without a context
\* (and Stats Sink) of its own
InitContext ==
    /\ \E given \in [Orchestrators -> BOOLEAN] :
          sinkOf = [o \in Orchestrators |-> ContextSink(o, given[o])]
    /\ sinkStats = [k \in Orchestrators \cup {GlobalSink} |-> StatsReset]
    /\ orPc = [o \in Orchestrators |-> "constructed"]
    /\ orUnits = [o \in Orchestrators |-> 0]
    /\ orExpected = [o \in Orchestrators |-> StatsReset]
    /\ orRead = [o \in Orchestrators |-> StatsReset]
    /\ stats = StatsReset
    /\ ExtractIdle /\ TransformIdle /\ LoadIdle /\ OutputIdle /\ RunIdle /\ ProcessIdle
    /\ AccountingIdle /\ OutputProcessIdle /\ SinkIdle /\ TransformProcessIdle /\ DetectIdle /\ LocksIdle

SpecContext == InitContext /\ [][ContextNext]_vars

\* the filenames of an Output Spec: with a directory, without one, and none
OutputFilenames ==
    {[dir |-> "out", stem |-> "a", ext |-> e] :
        e \in {"csv", "CSV", "xlsx", "json", "unsupported"}}
      \cup {[dir |-> "", stem |-> "a", ext |-> "csv"], NoFilename}

\* the options one layer can give; every value names the layer it comes from
OptionMaps(layer) ==
    {<<>>, [index |-> layer], [engine |-> layer], [index |-> layer, engine |-> layer]}

\* the <writer>_params options of a caller
MethodOptions ==
    {<<>>} \cup {w :> o : w \in {"to_csv", "to_excel"}, o \in OptionMaps("method")}

\* one call of OutputProcessor.process on a fresh Stats Sink
InitOutputProcess ==
    /\ opPc = "start"
    /\ opDf \in TransformedFrames
    /\ output_config \in
          {[filename |-> f, params |-> o] :
              f \in OutputFilenames, o \in OptionMaps("output")}
    /\ opKwargs \in
          {[common_params |-> c, method_params |-> m] :
              c \in OptionMaps("common"), m \in MethodOptions}
    /\ all_params = <<>>
    /\ opExc = "None"
    /\ opCalls = <<>>
    /\ opResult = "none"
    /\ stats = StatsReset
    /\ ExtractIdle /\ TransformIdle /\ LoadIdle /\ OutputIdle /\ RunIdle /\ ProcessIdle
    /\ AccountingIdle /\ ContextIdle /\ SinkIdle /\ TransformProcessIdle /\ DetectIdle /\ LocksIdle

SpecOutputProcess == InitOutputProcess /\ [][OutputProcessNext]_vars

InitExtract ==
    /\ \E n \in 0..MaxFiles :
         \E sizes \in [1..n -> 0..MaxRows] :
            file_paths = [i \in 1..n |-> SourceFile(i, sizes[i])]
    /\ exPc = "submit"
    /\ exTask = [i \in DOMAIN file_paths |-> NoTask]
    /\ exSeen = {}
    /\ all_data = <<>>
    /\ extracted_data = EmptyFrame
    /\ stats = StatsReset
    /\ TransformIdle /\ LoadIdle /\ OutputIdle /\ RunIdle /\ ProcessIdle /\ AccountingIdle /\ OutputProcessIdle /\ ContextIdle /\ SinkIdle /\ TransformProcessIdle /\ DetectIdle /\ LocksIdle

SpecExtract == InitExtract /\ [][ExtractNext]_vars

\* process_concurrent called on its own, the updates of the Stats Sink taken apart
InitExtractSink ==
    /\ \E n \in 0..MaxFiles :
         \E sizes \in [1..n -> 0..MaxRows] :
            file_paths = [i \in 1..n |-> SourceFile(i, sizes[i])]
    /\ exPc = "submit"
    /\ exTask = [i \in DOMAIN file_paths |-> NoTask]
    /\ exSeen = {}
    /\ all_data = <<>>
    /\ extracted_data = EmptyFrame
    /\ stats = StatsReset
    /\ sinkLock = 0
    /\ exPending = [i \in DOMAIN file_paths |-> NoPending]
    /\ TransformIdle /\ LoadIdle /\ OutputIdle /\ RunIdle /\ ProcessIdle /\ AccountingIdle
    /\ OutputProcessIdle /\ ContextIdle /\ TransformProcessIdle /\ DetectIdle /\ LocksIdle

SpecExtractSink == InitExtractSink /\ [][ExtractSinkNext]_vars

\* the extensions of the format table, and their upper-case spellings
KnownExtensions ==
    {"csv", "txt", "xlsx", "xls", "parquet", "pkl", "pickle", "json", "feather"}

UpperExtensions ==
    {"CSV", "TXT", "XLSX", "XLS", "PARQUET", "PKL", "PICKLE", "JSON", "FEATHER"}

\* the last pieces of a file name
LastPieces == KnownExtensions \cup UpperExtensions \cup {"unsupported", ""}

\* file names: without a dot, with one, hidden, with several dots
BaseNames ==
    {<<"data">>, <<"csv">>}
      \cup {<<"data", e>> : e \in LastPieces}
      \cup {<<"", e>> : e \in LastPieces}
      \cup {<<"", "hiddenfile", e>> : e \in LastPieces}
      \cup {<<"some", "csv", e>> : e \in LastPieces}

\* the paths detect_file_format is given: no directory, directories, a
\* directory whose name ends like an extension
DetectPaths ==
    {[dir |-> d, base |-> b] :
        d \in {<<>>, <<<<"path">>, <<"to">>>>, <<<<"v1", "xlsx">>>>}, b \in BaseNames}

InitDetect ==
    /\ detPc = "start"
    /\ detPath \in DetectPaths
    /\ detResult = DetectFileFormat(Unbound)
    /\ stats = StatsReset
    /\ ExtractIdle /\ TransformIdle /\ LoadIdle /\ OutputIdle /\ RunIdle /\ ProcessIdle
    /\ AccountingIdle /\ OutputProcessIdle /\ ContextIdle /\ SinkIdle
    /\ TransformProcessIdle /\ LocksIdle

SpecDetect == InitDetect /\ [][DetectCall]_vars

\* threads running calls that take locks, side by side
InitLocks ==
    /\ lkProg \in [LockThreads -> LockPrograms]
    /\ lkAt = [t \in LockThreads |-> 1]
    /\ lkHolder = [l \in Locks |-> 0]
    /\ stats = StatsReset
    /\ ExtractIdle /\ TransformIdle /\ LoadIdle /\ OutputIdle /\ RunIdle /\ ProcessIdle
    /\ AccountingIdle /\ OutputProcessIdle /\ ContextIdle /\ SinkIdle
    /\ TransformProcessIdle /\ DetectIdle

SpecLocks == InitLocks /\ [][LockNext]_vars

\* one call of the worker, or of TransformProcessor.process, on a fresh Stats Sink
InitTransformProcess ==
    /\ tpPc = "start"
    /\ df_chunk \in ListsUpTo(InputRows, MaxDfRows)
    /\ tpIndex \in 0..(MaxParts - 1)
    /\ custom_transform \in {"none", "returns", "raises"}
    /\ tpRet = <<None, 0, None>>
    /\ tpResult = [kind |-> "none"]
    /\ stats = StatsReset
    /\ ExtractIdle /\ TransformIdle /\ LoadIdle /\ OutputIdle /\ RunIdle /\ ProcessIdle
    /\ AccountingIdle /\ OutputProcessIdle /\ ContextIdle /\ SinkIdle /\ DetectIdle /\ LocksIdle

SpecTransformProcess == InitTransformProcess /\ [][TransformProcessNext]_vars

\* TransformProcessor.process_concurrent called on its own
InitTransform ==
    /\ df \in ListsUpTo(InputRows, MaxDfRows)
    /\ num_partitions \in 1..MaxParts
    /\ df_split = <<>>
    /\ trPc = "call"
    /\ trTask = <<>>
    /\ trSeen = {}
    /\ results = <<>>
    /\ transformed_data = EmptyFrame
    /\ stats = StatsReset
    /\ ExtractIdle /\ LoadIdle /\ OutputIdle /\ RunIdle /\ ProcessIdle /\ AccountingIdle /\ OutputProcessIdle /\ ContextIdle /\ SinkIdle /\ TransformProcessIdle /\ DetectIdle /\ LocksIdle

SpecTransform == InitTransform /\ [][TransformNext]_vars

\* LoadProcessor.process_concurrent called on its own
InitLoad ==
    /\ ldDf \in TransformedFrames
    /\ reports \in ListsUpTo(ReportSpecs, MaxReports)
    /\ ldPc = "call"
    /\ ldTask = [i \in DOMAIN reports |-> NoLoadTask]
    /\ ldSeen = {}
    /\ ldResults = <<>>
    /\ file_lock = Free
    /\ stats = StatsReset
    /\ ExtractIdle /\ TransformIdle /\ OutputIdle /\ RunIdle /\ ProcessIdle /\ AccountingIdle /\ OutputProcessIdle /\ ContextIdle /\ SinkIdle /\ TransformProcessIdle /\ DetectIdle /\ LocksIdle

SpecLoad == InitLoad /\ [][LoadNext]_vars

\* OutputProcessor.process_concurrent called on its own
InitOutput ==
    /\ outDf \in TransformedFrames
    /\ output_configs \in ListsUpTo(OutputSpecs, MaxOutputs)
    /\ outPc = "call"
    /\ outTask = [i \in DOMAIN output_configs |-> NoOutputTask]
    /\ outSeen = {}
    /\ outResults = <<>>
    /\ locks = <<>>
    /\ manager_lock = 0
    /\ lockOwner = <<>>
    /\ stats = StatsReset
    /\ ExtractIdle /\ TransformIdle /\ LoadIdle /\ RunIdle /\ ProcessIdle /\ AccountingIdle /\ OutputProcessIdle /\ ContextIdle /\ SinkIdle /\ TransformProcessIdle /\ DetectIdle /\ LocksIdle

SpecOutput == InitOutput /\ [][OutputNext]_vars

\* a run of either orchestrator, in either processing mode
Init ==
    /\ runPc = "start"
    /\ runCfg \in {c \in [flow : {"base", "ext"}, processing_mode : {"CONCURRENT", "SEQUENTIAL"},
                           skip_load : BOOLEAN] : c.flow = "base" => ~c.skip_load}
    /\ load_success = TRUE
    /\ output_success = TRUE
    /\ runRet = "none"
    /\ stats \in {StatsReset, StatsFileProcessed(StatsReset, 1)}
    /\ ExtractIdle /\ TransformIdle /\ LoadIdle /\ OutputIdle /\ ProcessIdle
    /\ AccountingIdle /\ OutputProcessIdle /\ ContextIdle /\ SinkIdle /\ TransformProcessIdle /\ DetectIdle /\ LocksIdle

Spec == Init /\ [][Next]_vars

\* a run in which whatever can go on does go on: every unit that was started
\* finishes, a lock that is free is given to one of those waiting for it, and
\* the thread of the run goes on when its futures are done
SpecFair == Init /\ [][Next]_vars /\ WF_vars(Next)

\* ------------------------------------------------------- claims on Extract
SourceData == [i \in DOMAIN file_paths |-> file_paths[i].rows]

ExSucceeded == {i \in DOMAIN exTask : exTask[i].st = "done"}

ExFailed == {i \in DOMAIN exTask : exTask[i].st = "failed"}

FrameRows(frame) == {frame[k] : k \in DOMAIN frame}

\* C1: when Extract.process_concurrent has returned, the row count of the record
\* set it returned is the sum of the row counts of exactly the sources whose
\* process task succeeded, whatever order the tasks completed in.
C1_ExtractRowCount ==
    exPc = "returned" =>
        Len(extracted_data) = SumLen(SourceData, ExSucceeded)

\* Sources of different sizes, one of them failed, collected out of submission order.
C1_Witness ==
    /\ exPc = "returned"
    /\ ExFailed # {}
    /\ Cardinality(ExSucceeded) >= 2
    /\ Len(extracted_data) = 3
    /\ Len(all_data) >= 2
    /\ all_data[1] = SourceData[Len(file_paths)]

\* C2: a source whose task raised contributes no row to the merged result, and
\* it did not keep any sibling from running to completion and being included:
\* on return every task has run, and every row of every succeeded source is in
\* the result.
C2_FailureIsolated ==
    exPc = "returned" =>
        /\ \A i \in DOMAIN exTask : exTask[i].st \in {"done", "failed"}
        /\ \A i \in ExFailed : FrameRows(SourceData[i]) \cap FrameRows(extracted_data) = {}
        /\ \A i \in ExSucceeded : FrameRows(SourceData[i]) \subseteq FrameRows(extracted_data)

\* The first source submitted failed and was collected first; a sibling with rows
\* still ended up in the result.
C2_Witness ==
    /\ exPc = "returned"
    /\ 1 \in ExFailed
    /\ SourceData[1] # <<>>
    /\ \E j \in ExSucceeded : SourceData[j] # <<>>
    /\ extracted_data # EmptyFrame

\* ----------------------------------------------------- claims on Transform
TrSucceeded ==
    {i \in DOMAIN trTask : trTask[i].st = "returned" /\ trTask[i].ret.error_type = "None"}

TrFailed ==
    {i \in DOMAIN trTask :
        \/ trTask[i].st = "raised"
        \/ trTask[i].st = "returned" /\ trTask[i].ret.error_type # "None"}

RECURSIVE SumCounts(_, _)
SumCounts(counts, S) ==
    IF S = {} THEN 0
    ELSE LET k == CHOOSE x \in S : TRUE
         IN counts[k] + SumCounts(counts, S \ {k})

ErrorsRecorded == SumCounts(stats.error_counts, ErrorKinds)

\* what each partition's worker produces: the per-unit outcomes
PartitionOutput == [i \in DOMAIN df_split |-> StrategyTransform(df_split[i])]

\* C3: when Transform.process_concurrent has returned, every partition has run
\* (none was aborted by a sibling's failure), the Stats Sink holds exactly one
\* recorded error per failed partition, and the returned record set is the
\* concatenation of the outputs of exactly the partitions that succeeded.
C3_FailedPartitionsRecorded ==
    (trPc = "returned" /\ Len(df) # 0) =>
        /\ \A i \in DOMAIN trTask : trTask[i].st \in {"returned", "raised"}
        /\ ErrorsRecorded = Cardinality(TrFailed)
        /\ RowBag(transformed_data) = BagOf(PartitionOutput, TrSucceeded)

\* C4: for the row-wise default strategy and any partition count, when the
\* strategy accepts the input and every partition was transformed, the record
\* set process_concurrent returns has, ignoring row order, the rows of the
\* strategy applied to the whole unpartitioned record set.
C4_PartitionInvariance ==
    (/\ trPc = "returned"
     /\ ~StrategyRaises(df)
     /\ \A i \in DOMAIN trTask : trTask[i].st = "returned")
        => RowBag(transformed_data) = RowBag(StrategyTransform(df))

\* Three rows in two partitions of sizes 2 and 1, merged in the other order.
C4_Witness ==
    /\ trPc = "returned"
    /\ Len(df) = 3
    /\ num_partitions = 2
    /\ ~StrategyRaises(df)
    /\ \A i \in DOMAIN trTask : trTask[i].st = "returned"
    /\ Len(df_split[1]) = 2
    /\ transformed_data = PartitionOutput[2] \o PartitionOutput[1]
    /\ transformed_data # StrategyTransform(df)

Writing == {i \in DOMAIN outTask : outTask[i].st = "running" /\ outTask[i].at = "write"}

Acquiring == {i \in DOMAIN outTask : outTask[i].st = "running" /\ outTask[i].at = "acquire"}

TargetPath(i) == NormPath(AbsPath(output_configs[i].filename))

\* C7: two Output.process calls whose filenames normalize to the same absolute
\* path are never inside their file-writing section at the same time.
C7_SamePathExclusive ==
    \A a \in Writing : \A b \in Writing :
        a # b => TargetPath(a) # TargetPath(b)

\* Two spellings of one path: one call writes while the other waits for the lock.
C7_Witness ==
    \E a \in Writing : \E b \in Acquiring :
        /\ output_configs[a].filename # output_configs[b].filename
        /\ TargetPath(a) = TargetPath(b)

\* C8: a call waiting for its lock is never held up by writers of other
\* normalized paths: when no call is writing the same path, it can enter its
\* file-writing section at once.
C8_DistinctPathsNotSerialized ==
    \A b \in Acquiring :
        (\A a \in Writing : TargetPath(a) # TargetPath(b)) => ENABLED OutputAcquire(b)

\* Two calls on distinct normalized paths are inside their file-writing section
\* at the same time.
C8_Witness ==
    \E a \in Writing : \E b \in Writing :
        /\ a # b
        /\ TargetPath(a) # TargetPath(b)

\* ------------------------------------------------------- claims on the run
\* a stage has started once its processor was called or one of its units was
TransformStarted == trPc # "idle" \/ trTask # <<>> \/ df # EmptyFrame

LoadStarted == ldPc # "idle" \/ ldTask # <<>> \/ ldDf # EmptyFrame

OutputStarted == outPc # "idle" \/ outTask # <<>> \/ outDf # EmptyFrame

\* the run is past its Extract stage, past its Transform stage
PastExtract == runPc \notin {"start", "extract_wait", "extract_seq"}

PastTransform == PastExtract /\ runPc \notin {"transform", "transform_wait", "transform_seq"}

ExtractUnitsFinished == \A i \in DOMAIN exTask : exTask[i].st \in {"done", "failed"}

TransformUnitsFinished == \A i \in DOMAIN trTask : trTask[i].st \in {"returned", "raised"}

LoadUnitsFinished == \A i \in DOMAIN ldTask : ldTask[i].st = "done"

\* C5: whatever order the tasks completed in, the rows process_concurrent
\* returns are, as a multiset, a function of the inputs and of the per-unit
\* outcomes alone: for Extract the rows of the sources that succeeded, for
\* Transform the rows the succeeded partitions produced.
C5_MergeContentDeterministic ==
    /\ exPc = "returned" => RowBag(extracted_data) = BagOf(SourceData, ExSucceeded)
    /\ trPc = "returned" => RowBag(transformed_data) = BagOf(PartitionOutput, TrSucceeded)

\* Both merges came out in the order opposite to the submission order.
C5_Witness ==
    /\ exPc = "returned"
    /\ trPc = "returned"
    /\ ExSucceeded = {1, 2}
    /\ TrSucceeded = {1, 2}
    /\ extracted_data = SourceData[2] \o SourceData[1]
    /\ extracted_data # SourceData[1] \o SourceData[2]
    /\ transformed_data = PartitionOutput[2] \o PartitionOutput[1]
    /\ transformed_data # PartitionOutput[1] \o PartitionOutput[2]

\* C9: in a run of either orchestrator, in either processing mode, Transform
\* has started only if Extract gave a non-empty record set, Load and Output
\* have started only if Transform gave a non-empty record set; and once Extract
\* or Transform has given an empty result, no later stage has started and the
\* run, if it has returned, returned False.
C9_EmptyResultHalts ==
    /\ TransformStarted => (PastExtract /\ extracted_data # EmptyFrame)
    /\ (LoadStarted \/ OutputStarted) => (PastTransform /\ transformed_data # EmptyFrame)
    /\ (exPc = "returned" \/ PastExtract) /\ extracted_data = EmptyFrame =>
          /\ ~TransformStarted /\ ~LoadStarted /\ ~OutputStarted
          /\ runPc \in {"extract_wait", "returned"}
          /\ runPc = "returned" => runRet = "False"
    /\ (trPc = "returned" \/ PastTransform) /\ transformed_data = EmptyFrame =>
          /\ ~LoadStarted /\ ~OutputStarted
          /\ runPc \in {"transform_wait", "returned"}
          /\ runPc = "returned" => runRet = "False"

\* Extract gave rows, Transform ran on them and every partition failed: the run
\* returned False with Load and Output untouched.
C9_Witness ==
    /\ runPc = "returned"
    /\ runRet = "False"
    /\ extracted_data # EmptyFrame
    /\ trPc = "returned"
    /\ trTask # <<>>
    /\ TrSucceeded = {}
    /\ transformed_data = EmptyFrame
    /\ ~LoadStarted
    /\ ~OutputStarted

\* C10: each stage is a barrier.  While Transform is under way or over, every
\* Extract unit has finished; while the side file is written, or Load or Output
\* is under way or over, every Transform unit has finished; while Output is
\* under way or over, every Load unit has finished.
C10_StageBarrier ==
    /\ TransformStarted => ExtractUnitsFinished
    /\ (runPc \in {"save", "saving"} \/ LoadStarted \/ OutputStarted) =>
          (ExtractUnitsFinished /\ TransformUnitsFinished)
    /\ OutputStarted => LoadUnitsFinished

\* An Output unit is writing after a run in which one Extract unit, one
\* Transform unit and one Load unit failed and their siblings succeeded.
C10_Witness ==
    /\ Concurrent
    /\ \E i \in DOMAIN outTask : outTask[i].st = "running"
    /\ ExFailed # {} /\ ExSucceeded # {}
    /\ TrFailed # {} /\ TrSucceeded # {}
    /\ \E i \in DOMAIN ldTask : ldTask[i].result
    /\ \E i \in DOMAIN ldTask : ~ldTask[i].result

\* the extended run's Load stage is over and no report succeeded
LoadStageFailed ==
    /\ runCfg.flow = "ext"
    /\ LoadStarted
    /\ reports # <<>>
    /\ runPc \in {"output", "output_wait", "output_seq", "returned"}
    /\ ~load_success

C12_SequentialAsConcurrent ==
    runPc = "returned" =>
        /\ (\E i \in ExSucceeded : SourceData[i] # <<>>) => TransformStarted
        /\ (\E i \in TrSucceeded : PartitionOutput[i] # <<>>) =>
              transformed_data # EmptyFrame

\* ------------------------------------------- claims on a stage with no success
\* C13: when the list of sources is not empty and every task failed, the call
\* of Extract.process_concurrent still returns (once every future is
\* collected the return is the next step), and what it returns is the empty
\* record set.
C13_AllSourcesFailed ==
    (file_paths # <<>> /\ ExFailed = DOMAIN exTask) =>
        /\ (exPc = "collect" /\ exSeen = DOMAIN exTask) => ENABLED ExtractReturn
        /\ exPc = "returned" => extracted_data = EmptyFrame

\* Three sources with rows, all failed, and the call has returned.
C13_Witness ==
    /\ exPc = "returned"
    /\ Len(file_paths) = 3
    /\ \A i \in DOMAIN file_paths : file_paths[i].rows # <<>>
    /\ ExFailed = DOMAIN exTask
    /\ stats.error_counts["FileNotFoundError"] >= 3

\* C14: when every partition submitted by Transform.process_concurrent failed
\* (its worker returned a diagnostic or its future raised), the call still
\* returns, and what it returns is the empty record set.
C14_AllPartitionsFailed ==
    (trTask # <<>> /\ TrFailed = DOMAIN trTask) =>
        /\ (trPc = "collect" /\ trSeen = DOMAIN trTask) => ENABLED TransformReturn
        /\ trPc = "returned" => transformed_data = EmptyFrame

\* Two partitions: one worker returned a diagnostic, one future raised.
C14_Witness ==
    /\ trPc = "returned"
    /\ Len(trTask) >= 2
    /\ TrFailed = DOMAIN trTask
    /\ \E i \in DOMAIN trTask : trTask[i].st = "raised"
    /\ \E i \in DOMAIN trTask : trTask[i].st = "returned"

\* ------------------------------------------------ claims on Extract.process
\* the calls of `fn` the call of process has made
CallsOf(fn) == {k \in DOMAIN prCalls : prCalls[k].fn = fn}

\* C15: when process has raised after its path was resolved (format detection,
\* the reader or a later step failed), the Stats Sink was told the kind of that
\* error exactly once and nothing else, the file was not counted as processed,
\* and the error raised to the caller is the one that was caught.
C15_FailureRecordedAndReraised ==
    (prPc = "raised" /\ prFilePath # Unbound) =>
        /\ prResult.kind = "raised"
        /\ prResult.error = prExc
        /\ Cardinality(CallsOf("record_error")) = 1
        /\ \A k \in CallsOf("record_error") : prCalls[k].kind = prExc
        /\ CallsOf("file_processed") = {}
        /\ stats = StatsRecordError(StatsReset, prExc)

\* The reader returned rows and a later step failed.
C15_Witness ==
    /\ prPc = "raised"
    /\ CallsOf("reader") # {}
    /\ prDf # NoFrame
    /\ prExc = "RuntimeError"
    /\ prResult.error = "RuntimeError"

\* C16: when process has returned, for a path string as for a record holding a
\* path, the Stats Sink was told exactly once, with the resolved path and the
\* row count of the record set read, no error was recorded, and the value
\* returned is the record set the reader gave.
C16_SuccessCountedOnce ==
    prPc = "returned" =>
        /\ Cardinality(CallsOf("file_processed")) = 1
        /\ \A k \in CallsOf("file_processed") :
              /\ prCalls[k].path = file_info.path
              /\ prCalls[k].rows = Len(prDf)
        /\ CallsOf("record_error") = {}
        /\ stats = StatsFileProcessed(StatsReset, Len(prDf))
        /\ prResult = [kind |-> "returned", error |-> "None", data |-> prDf]

\* A record holding a path, two rows read.
C16_Witness ==
    /\ prPc = "returned"
    /\ file_info.kind = "dict"
    /\ Len(prDf) = 2
    /\ prResult.data = prDf
    /\ stats.rows_processed = 2

\* C17: while the reader runs, the calling thread's current_file marker is the
\* path being read, and once process has returned or raised the marker is
\* absent.
C17_CurrentFileMarker ==
    /\ prPc = "read" => ThreadLocalCurrentFile = prFilePath
    /\ prPc \in {"returned", "raised"} => ThreadLocalCurrentFile = NoMarker

\* C18: the reader is called on the resolved path with the format's default
\* parameters merged with the caller's options: every key of either, the
\* caller's value for the keys the caller gave, the default for the others.
C18_CallerOptionsWin ==
    \A k \in CallsOf("reader") :
        LET used == prCalls[k].params
            defaults == DetectFileFormat(prCalls[k].path).params
        IN /\ prCalls[k].path = file_info.path
           /\ DOMAIN used = DOMAIN defaults \cup DOMAIN kwargs
           /\ \A key \in DOMAIN kwargs : used[key] = kwargs[key]
           /\ \A key \in DOMAIN defaults \ DOMAIN kwargs : used[key] = defaults[key]

\* A spreadsheet read with the caller's engine in place of the default one, and
\* one more option of the caller.
C18_Witness ==
    \E k \in CallsOf("reader") :
        /\ Lower(prCalls[k].path.ext) = "xlsx"
        /\ kwargs = [engine |-> "xlrd", custom_arg |-> "value"]
        /\ prCalls[k].params = [engine |-> "xlrd", custom_arg |-> "value"]
        /\ DetectFileFormat(prCalls[k].path).params = [engine |-> "openpyxl"]

\* --------------------------------------- claims on the accounting strategy
\* the debit sum and the credit sum of voucher v in the record set given
DebitSum(v) ==
    VoucherSum([k \in DOMAIN acDf |-> AccountingRow(acDf[k])], v, "debit_amount")

CreditSum(v) ==
    VoucherSum([k \in DOMAIN acDf |-> AccountingRow(acDf[k])], v, "credit_amount")

\* C19: every row of a voucher whose debit sum and credit sum differ by at most
\* 0.01, the difference 0.01 included, is stamped balanced; every row of any
\* other voucher is stamped not balanced.
C19_BalancedWithinTolerance ==
    acPc = "returned" =>
        \A k \in DOMAIN acOut :
            acOut[k].is_balanced <=>
                Abs(DebitSum(acOut[k].voucher_id) - CreditSum(acOut[k].voucher_id))
                    <= Tolerance

\* the calls of LoadProcessor.process that caught an exception of this kind
LoadCaught(kind) == {i \in DOMAIN ldTask : ldTask[i].error = kind}

\* C20: a call of LoadProcessor.process that has ended has returned True or
\* False; if it caught an exception (in the aggregation, in post_process or in
\* the write) it returned False and the Stats Sink counted that kind once for
\* it; it returned True only with its report file written; and a call still on
\* its way has neither a result nor a file yet.
C20_LoadProcessNeverRaises ==
    /\ \A i \in DOMAIN ldTask :
          /\ ldTask[i].result \in BOOLEAN
          /\ ldTask[i].error \in ErrorKinds \cup {NoError}
          /\ ldTask[i].error # NoError => ldTask[i].st = "done" /\ ~ldTask[i].result
          /\ ldTask[i].result => ldTask[i].st = "done" /\ ldTask[i].file
          /\ ldTask[i].file => ldTask[i].result
    /\ \A kind \in ErrorKinds :
          stats.error_counts[kind] = Cardinality(LoadCaught(kind))

\* One call failed in post_process, one in the write, one in the aggregation
\* or not at all, and a report was written.
C20_Witness ==
    /\ ldPc = "returned"
    /\ LoadCaught("ValueError") # {}
    /\ LoadCaught("OSError") # {}
    /\ \E i \in DOMAIN ldTask : ldTask[i].result /\ ldTask[i].file

\* the calls of LoadProcessor.process that ended on a report with no recipe
LoadUnknown ==
    {i \in DOMAIN ldTask : ldTask[i].st = "done" /\ ~HasRecipe(reports[i])}

\* C21: when process_concurrent has returned, every report whose dimension is
\* outside the named table and that has no generic recipe returned False and
\* wrote no file, and the Stats Sink's error-kind counters hold one count for
\* each of them (besides one for each call that caught an exception).
C21_UnknownDimensionCounted ==
    ldPc = "returned" =>
        /\ \A i \in LoadUnknown : ~ldTask[i].result /\ ~ldTask[i].file
        /\ ErrorsRecorded =
               Cardinality(LoadUnknown)
                   + Cardinality({i \in DOMAIN ldTask : ldTask[i].error # NoError})

\* ------------------------------------------------ claims on Output.process
OutputCallsOf(fn) == {k \in DOMAIN opCalls : opCalls[k].fn = fn}

\* the calls of the writer, whichever method it is
OutputWriterCalls == {k \in DOMAIN opCalls : "done" \in DOMAIN opCalls[k]}

\* C22: a call of OutputProcessor.process ends by returning True or False; it
\* returns True exactly when the writer was called and returned; then the
\* Stats Sink counted one file with the rows of the record set and no error;
\* when it returns False (a missing filename included) the Stats Sink counted
\* exactly one error, of the kind caught, and no file.
C22_OutputProcessNeverRaises ==
    /\ opResult \in {"none", "True", "False"}
    /\ opResult = "none" <=> opPc # "returned"
    /\ opPc = "returned" =>
          /\ opResult = "True" <=> \E k \in OutputWriterCalls : opCalls[k].done
          /\ opResult = "True" =>
                stats = StatsFileProcessed(StatsReset, Len(opDf))
          /\ opResult = "False" =>
                /\ opExc \in ErrorKinds
                /\ stats = StatsRecordError(StatsReset, opExc)
                /\ Cardinality(OutputCallsOf("record_error")) = 1
                /\ OutputCallsOf("file_processed") = {}

\* A call without a filename returned False with its one error recorded.
C22_Witness ==
    /\ opPc = "returned"
    /\ output_config.filename = NoFilename
    /\ opResult = "False"
    /\ stats.error_counts["ValueError"] = 1

\* the four layers of a call whose filename has a known format, lowest first
OutputLayers ==
    LET format_info == DetectFileFormat(output_config.filename)
    IN <<format_info.params, opKwargs.common_params,
         MethodParams(opKwargs, format_info.writer), output_config.params>>

\* the last layer that defines the key
LastLayerWith(key) ==
    CHOOSE i \in 1..4 :
        /\ key \in DOMAIN OutputLayers[i]
        /\ \A j \in (i + 1)..4 : key \notin DOMAIN OutputLayers[j]

\* C23: in every call of the writer, each key that some layer defines has the
\* value of the last of the layers (format defaults, global options, options
\* of the writer method, options of the Output Spec) that defines it, and the
\* only key no layer defines is the row-index default.
C23_LayersInOrder ==
    \A k \in OutputWriterCalls :
        LET defined == UNION {DOMAIN OutputLayers[i] : i \in 1..4}
        IN /\ \A key \in defined :
                 opCalls[k].params[key] = OutputLayers[LastLayerWith(key)][key]
           /\ DOMAIN opCalls[k].params \subseteq defined \cup {"index"}

\* The writer was called for an .xlsx file whose engine is set by the format,
\* by the global options and by the to_excel options, but not by the Output Spec.
C23_Witness ==
    /\ OutputWriterCalls # {}
    /\ "engine" \in DOMAIN OutputLayers[1]
    /\ "engine" \in DOMAIN OutputLayers[2]
    /\ "engine" \in DOMAIN OutputLayers[3]
    /\ "engine" \notin DOMAIN OutputLayers[4]
    /\ \A k \in OutputWriterCalls : opCalls[k].params.engine = "method"

\* ---------------------------------------------------- claims on the contexts
\* C24: when the run of an orchestrator has ended, the counters read from its
\* Stats Sink are exactly those of the units of that run (the sink was reset
\* before the first of them), and the sink still holds them afterwards: no run
\* of the other, separately constructed orchestrator has reset or changed it.
C24_SinkPerOrchestrator ==
    \A o \in Orchestrators :
        orPc[o] = "done" =>
            /\ orRead[o] = orExpected[o]
            /\ sinkStats[sinkOf[o]] = orRead[o]

\* ------------------------------------ claims on the Stats Sink under Extract
\* C25: when process_concurrent has returned, whatever the interleaving of its
\* workers was, the Stats Sink counts as files exactly the sources that were
\* read, as rows exactly the sum of their row counts, and as errors exactly
\* one per source that failed: no update was lost.
C25_NoLostUpdate ==
    exPc = "returned" =>
        LET ok == {i \in DOMAIN exTask : exTask[i].st = "done"}
            failed == {i \in DOMAIN exTask : exTask[i].st = "failed"}
        IN /\ ok \cup failed = DOMAIN exTask
           /\ stats.files_processed = Cardinality(ok)
           /\ stats.rows_processed = SumLen([i \in DOMAIN exTask |-> file_paths[i].rows], ok)
           /\ stats.error_counts["FileNotFoundError"] = Cardinality(failed)
           /\ SumCounts(stats.error_counts, ErrorKinds) = Cardinality(failed)

\* Three sources: two were read and one failed.
C25_Witness ==
    /\ exPc = "returned"
    /\ Len(file_paths) >= 3
    /\ stats.files_processed = 2
    /\ stats.rows_processed > 0
    /\ stats.error_counts["FileNotFoundError"] = 1

\* ------------------------------- claims on the worker and Transform.process
\* C26: when TransformProcessor.process has raised, the error raised carries
\* the diagnostic context of the failure (error kind, message, stack, partition
\* shape, partition columns, strategy name), and the one error kind the Stats
\* Sink has counted is the kind of the failure of the strategy or the hook.
C26_TransformErrorKind ==
    tpPc = "raised" =>
        LET outcome == ApplyStrategyAndHook(df_chunk, custom_transform)
            context == tpResult.error.args
        IN /\ tpResult.kind = "raised"
           /\ context.error_type = outcome.error_type
           /\ context.error_message = outcome.error_message
           /\ context.traceback # <<>>
           /\ context.chunk_shape = <<Len(df_chunk), Cardinality(ChunkColumns)>>
           /\ context.chunk_columns = ChunkColumns
           /\ context.strategy = "DefaultSalesTransformStrategy"
           /\ stats = StatsRecordError(StatsReset, outcome.error_type)

\* C30: a call of _transform_chunk_worker returns a triple whose index is the
\* one given; when the strategy and the hook went through, the triple holds the
\* result and no diagnostic; when either failed, it holds no result and the
\* diagnostic of that failure; so exactly one of the two is present.
C30_WorkerTriple ==
    /\ tpPc = "start" => ENABLED TransformWorkerCall
    /\ tpPc = "worker_returned" =>
          LET outcome == ApplyStrategyAndHook(df_chunk, custom_transform)
          IN /\ tpRet[2] = tpIndex
             /\ tpRet[1].present # tpRet[3].present
             /\ tpRet[1].present <=> outcome.error_type = "None"
             /\ tpRet[1].present => tpRet[1].value = outcome.data
             /\ tpRet[3].present =>
                   /\ tpRet[3].value.error_type = outcome.error_type
                   /\ tpRet[3].value.chunk_index = tpIndex

\* The hook failed on a partition given with a non-zero index.
C30_Witness ==
    /\ tpPc = "worker_returned"
    /\ custom_transform = "raises"
    /\ tpIndex = 2
    /\ tpRet[3].present
    /\ tpRet[3].value.error_type = "KeyError"
    /\ tpRet[2] = 2

\* ----------------------------------------------- claims on format detection
\* the table of the formats: reader, writer, default parameters
FormatTable ==
    [csv |-> <<"read_csv", "to_csv", <<>>>>,
     txt |-> <<"read_csv", "to_csv", <<>>>>,
     xlsx |-> <<"read_excel", "to_excel", [engine |-> "openpyxl"]>>,
     xls |-> <<"read_excel", "to_excel", [engine |-> "openpyxl"]>>,
     parquet |-> <<"read_parquet", "to_parquet", <<>>>>,
     pkl |-> <<"read_pickle", "to_pickle", <<>>>>,
     pickle |-> <<"read_pickle", "to_pickle", <<>>>>,
     json |-> <<"read_json", "to_json", [orient |-> "records"]>>,
     feather |-> <<"read_feather", "to_feather", <<>>>>]

\* the upper-case spelling of each extension of the table
UpperOf ==
    [csv |-> "CSV", txt |-> "TXT", xlsx |-> "XLSX", xls |-> "XLS",
     parquet |-> "PARQUET", pkl |-> "PKL", pickle |-> "PICKLE", json |-> "JSON",
     feather |-> "FEATHER"]

\* the final extension of the path given: the last piece of the file name when
\* a dot that is not a leading one comes before it
FinalExtension ==
    LET base == detPath.base
    IN IF \E k \in 1..(Len(base) - 1) : base[k] # ""
       THEN base[Len(base)]
       ELSE ""

\* C27: the format returned for a path is the table's entry for its final
\* extension, in lower or upper case, whatever its directories and the other
\* dots of its name are; for every other final extension, the empty one
\* included, the call fails with an error that names that extension.
C27_FormatByExtension ==
    detPc = "returned" =>
        /\ \A e \in DOMAIN FormatTable :
              FinalExtension \in {e, UpperOf[e]} =>
                  /\ detResult.error = "None"
                  /\ <<detResult.reader, detResult.writer, detResult.params>> = FormatTable[e]
        /\ (\A e \in DOMAIN FormatTable : FinalExtension \notin {e, UpperOf[e]}) =>
              /\ detResult.error = "ValueError"
              /\ detResult.message = FinalExtension

\* An upper-case extension after several dots, in a directory whose own name
\* ends like another extension.
C27_Witness ==
    /\ detPc = "returned"
    /\ detPath = [dir |-> <<<<"v1", "xlsx">>>>, base |-> <<"some", "csv", "PARQUET">>]
    /\ detResult.writer = "to_parquet"

\* the Report Specs that carry a dimension
LoadWellFormed == {i \in DOMAIN reports : reports[i].dimension # NoDimension}

\* C29: a Report Spec without a dimension fails only itself: the call of
\* process_concurrent does not raise, and the map it returns (for a record set
\* that is not empty) holds an outcome for every other report.
C29_MalformedReportIsolated ==
    /\ ldPc # "raised"
    /\ (ldPc = "returned" /\ Len(ldDf) # 0) =>
          \A i \in LoadWellFormed :
              /\ ldTask[i].st = "done"
              /\ reports[i].dimension \in DOMAIN ldResults

\* ------------------------------------------------------- claims on retries
\* how far a unit is: not submitted, queued, started, finished
Rank(st) ==
    CASE st = "none" -> 0
      [] st = "queued" -> 1
      [] st = "running" -> 2
      [] OTHER -> 3

\* the unit goes forward only
Forward(task, taskAfter) ==
    \A i \in DOMAIN task :
        /\ i \in DOMAIN taskAfter
        /\ Rank(taskAfter[i].st) >= Rank(task[i].st)

\* C28: in a run, no unit of any stage is started a second time: a source, a
\* partition, a report or an Output Spec only ever goes from submitted to
\* started to finished, whether it succeeds or fails; and when a stage's
\* process_concurrent has returned, every one of its units was started and has
\* finished.
C28_NoRetry ==
    /\ [][/\ Forward(exTask, exTask')
          /\ Forward(trTask, trTask')
          /\ Forward(ldTask, ldTask')
          /\ Forward(outTask, outTask')]_vars
    /\ [](/\ exPc = "returned" => \A i \in DOMAIN exTask : Rank(exTask[i].st) = 3
          /\ trPc = "returned" => \A i \in DOMAIN trTask : Rank(trTask[i].st) = 3
          /\ ldPc = "returned" => \A i \in DOMAIN ldTask : Rank(ldTask[i].st) = 3
          /\ outPc = "returned" => \A i \in DOMAIN outTask : Rank(outTask[i].st) = 3)

\* A concurrent run has returned; a source failed to be read, a report and an
\* Output Spec failed too, and none of them was started again.
C28_Witness ==
    /\ runPc = "returned"
    /\ Concurrent
    /\ \E i \in DOMAIN exTask : exTask[i].st = "failed"
    /\ \E i \in DOMAIN ldTask : ldTask[i].st = "done" /\ ~ldTask[i].result
    /\ \E i \in DOMAIN outTask : outTask[i].st = "done" /\ ~outTask[i].result

\* ------------------------------------------------------- claims on partitioning
RECURSIVE Flatten(_)
\* the partitions put one after the other, in partition order
Flatten(parts) ==
    IF Len(parts) = 0 THEN <<>> ELSE Flatten(SubSeq(parts, 1, Len(parts) - 1)) \o parts[Len(parts)]

\* C31: once process_concurrent has split a non-empty record set and submitted
\* its tasks, there are exactly num_partitions partitions, their sizes differ
\* by at most one, put one after the other in partition order they are the
\* input (contiguous, disjoint, nothing left out), and there is exactly one
\* submitted task per partition, the task of partition i working on partition i.
C31_PartitionsCoverInput ==
    (trPc \in {"collect", "returned"} /\ Len(df) # 0) =>
        /\ Len(df_split) = num_partitions
        /\ \A i, j \in DOMAIN df_split : Len(df_split[i]) - Len(df_split[j]) <= 1
        /\ Flatten(df_split) = df
        /\ DOMAIN trTask = DOMAIN df_split
        /\ \A i \in DOMAIN trTask : Rank(trTask[i].st) >= 1
        /\ \A i \in DOMAIN trTask :
              trTask[i].st = "returned" =>
                  trTask[i].ret = TransformChunkWorker(df_split[i], i - 1)

\* Three rows went into two partitions of two rows and one row, both tasks are
\* submitted, and the task of the second partition has returned.
C31_Witness ==
    /\ trPc = "collect"
    /\ Len(df) = 3
    /\ num_partitions = 2
    /\ Len(df_split[1]) = 2
    /\ Len(df_split[2]) = 1
    /\ df[1] # df[2]
    /\ trTask[2].st = "returned"
    /\ trTask[1].st = "queued"

\* ------------------------------------------------------- claims on the value of a run
\* what the claim says a run returns, from the two stage results
StageResultsValue ==
    IF runCfg.skip_load /\ output_configs # <<>> THEN output_success
    ELSE IF output_configs # <<>> THEN load_success /\ output_success
    ELSE load_success

\* a stage result is the stage's own: some unit of the stage succeeded, and a
\* stage that was skipped counts as successful
StageResultsOwn ==
    /\ ldTask # <<>> => (load_success <=> \E i \in DOMAIN ldTask : ldTask[i].result)
    /\ outTask # <<>> => (output_success <=> \E i \in DOMAIN outTask : outTask[i].result)
    /\ runCfg.skip_load => load_success
    /\ output_configs = <<>> => output_success

LoadWriting == {i \in DOMAIN ldTask : ldTask[i].st = "running" /\ ldTask[i].at = "write"}

\* C33: at most one Load.process is inside its file-writing section at any
\* time, and it is the holder of the shared file lock; this is so for every
\* number of report tasks and whatever files the reports are written to.
C33_OneLoadWriter ==
    /\ Cardinality(LoadWriting) <= 1
    /\ \A i \in LoadWriting : file_lock = <<"load", i>>

\* Three reports: one of them is being written, and one of another dimension,
\* so with another file to write, has aggregated and waits for the lock.
C33_Witness ==
    /\ Len(reports) = 3
    /\ \A i \in DOMAIN reports : reports[i].dimension # NoDimension
    /\ \E i, j \in DOMAIN ldTask :
          /\ LoadWriting = {i}
          /\ reports[i].dimension # reports[j].dimension
          /\ ldTask[j].st = "running"
          /\ ldTask[j].at = "lock"

\* ------------------------------------------------------- claims on the lock registry
\* the calls get_lock has returned a lock to
GotLock == {i \in DOMAIN outTask : outTask[i].lock # 0}

\* C34: the lock get_lock returns to a call is the one registered for the
\* normalized absolute path of the call's path, also when the first calls for
\* that path come from several threads at once; different normalized paths
\* have different locks, so two calls get the same lock exactly when their
\* paths normalize to the same path; and a lock once registered for a path is
\* never replaced or removed.
C34_OneLockPerPath ==
    /\ [](\A a \in GotLock :
              LET norm_path == LockKey(output_configs[a].filename)
              IN /\ norm_path \in DOMAIN locks
                 /\ locks[norm_path] = outTask[a].lock)
    /\ [](\A p, q \in DOMAIN locks : locks[p] = locks[q] => p = q)
    /\ [][\A p \in DOMAIN locks : p \in DOMAIN locks' /\ locks'[p] = locks[p]]_vars

\* Two calls with two spellings of one path both got the lock of that path
\* before either took it; a third call, for another path, was given another
\* lock.
C34_Witness ==
    \E a, b, c \in GotLock :
        /\ a # b
        /\ output_configs[a].filename # output_configs[b].filename
        /\ LockKey(output_configs[a].filename) = LockKey(output_configs[b].filename)
        /\ outTask[a].at = "acquire"
        /\ outTask[b].at = "acquire"
        /\ outTask[a].lock = outTask[b].lock
        /\ LockKey(output_configs[c].filename) # LockKey(output_configs[a].filename)
        /\ outTask[c].lock # outTask[a].lock
        /\ Cardinality(DOMAIN locks) = 2

\* ------------------------------------------------------- claims on termination
\* C35: when every unit that was started finishes and free locks are granted,
\* the run of either orchestrator, in either processing mode, returns a
\* boolean, and every process_concurrent call made on the way has returned by
\* then: no call is left waiting for its units.
C35_RunTerminates ==
    /\ <>(runPc = "returned" /\ runRet \in {"True", "False"})
    /\ [](runPc = "returned" =>
              /\ exPc \in {"idle", "returned"}
              /\ trPc \in {"idle", "returned"}
              /\ ldPc \in {"idle", "returned"}
              /\ outPc \in {"idle", "returned"})

\* A concurrent run of the extended flow went through its four stages, two
\* reports having waited for the shared file lock one after the other, and
\* returned True.
C35_Witness ==
    /\ runPc = "returned"
    /\ runRet = "True"
    /\ Concurrent
    /\ runCfg.flow = "ext"
    /\ exPc = "returned"
    /\ trPc = "returned"
    /\ ldPc = "returned"
    /\ outPc = "returned"
    /\ Cardinality({i \in DOMAIN ldTask : ldTask[i].file}) >= 1
    /\ Len(reports) = 2
    /\ Len(output_configs) = 2

\* ------------------------------------------------------- claims on lock nesting
\* C36: no thread ever holds two of the locks (log lock, shared file lock,
\* registry lock, a per-path lock) at the same time; so no thread waits for a
\* lock while it holds one, and as long as some thread has lock operations
\* left some thread can take its next step: the locking cannot deadlock.
C36_OneLockAtATime ==
    /\ \A t \in LockThreads : Cardinality(HeldBy(t)) <= 1
    /\ (\E t \in LockThreads : LockBusy(t)) => ENABLED LockNext

\* A Load.process holds the shared file lock while an Output.process holds the
\* lock of its path.
C36_Witness ==
    \E t, u \in LockThreads :
        /\ lkProg[t] = LoadProcessLocks
        /\ HeldBy(t) = {"file_lock"}
        /\ lkProg[u] = OutputProcessLocks("lock:out/a.csv")
        /\ HeldBy(u) = {"lock:out/a.csv"}

\* ------------------------------------------------------- claims on errors reaching run
\* an error raised by Extract.process reached run: sequential mode calls it
\* with no try of its own
ExtractRaisedIntoRun == ~Concurrent /\ \E i \in exSeen : exTask[i].st = "failed"

\* an error raised by Transform.process reached run
TransformRaisedIntoRun ==
    /\ ~Concurrent
    /\ \E i \in trSeen : trTask[i].st = "returned" /\ trTask[i].ret.error_type # "None"

\* C37: when an error raised inside a stage reaches run, of either
\* orchestrator, run has returned False (it ends with a value, never with the
\* error), and no later stage was started.
C37_StageErrorReturnsFalse ==
    /\ runRet \in {"none", "True", "False"}
    /\ ExtractRaisedIntoRun =>
          /\ runPc = "returned"
          /\ runRet = "False"
          /\ ~TransformStarted /\ ~LoadStarted /\ ~OutputStarted
    /\ TransformRaisedIntoRun =>
          /\ runPc = "returned"
          /\ runRet = "False"
          /\ ~LoadStarted /\ ~OutputStarted

\* A sequential run read two sources; the strategy raised on the first
\* partition: the run returned False, and Load and Output never started.
C37_Witness ==
    /\ TransformRaisedIntoRun
    /\ Len(file_paths) = 2
    /\ exSeen = {1, 2}
    /\ 1 \in trSeen
    /\ trTask[1].ret.error_type = "ValueError"
    /\ runRet = "False"
    /\ ~LoadStarted
    /\ stats.error_counts["Exception"] = 1

\* ------------------------------------------------------- claims on the keys of the success map
\* C38: the map Load.process_concurrent returns for a non-empty record set has
\* one entry per Report Spec, and the entry of a report is that report's own
\* outcome, whatever order the report tasks completed in and also when two
\* Report Specs carry the same dimension name.
C38_OneEntryPerReport ==
    (ldPc = "returned" /\ Len(ldDf) # 0) =>
        /\ Cardinality(DOMAIN ldResults) = Len(reports)
        /\ \A i \in DOMAIN reports :
              \E d \in DOMAIN ldResults :
                  /\ d = reports[i].dimension
                  /\ ldResults[d] = ldTask[i].result

\* ------------------------------------------------------- claims on vouchers across partitions
\* C39: when the accounting strategy is run through process_concurrent, every
\* row of the merged result carries the balanced flag the strategy gives its
\* voucher on the unpartitioned record set, so all rows of one voucher carry
\* the same flag, also when the voucher's rows fall into two partitions.
C39_VoucherFlagAcrossPartitions ==
    acPc = "merged" =>
        /\ Len(acMerged) = Len(acOut)
        /\ \A k \in DOMAIN acMerged : \A j \in DOMAIN acOut :
              acOut[j].voucher_id = acMerged[k].voucher_id
                  => acMerged[k].is_balanced = acOut[j].is_balanced
        /\ \A k, j \in DOMAIN acMerged :
              acMerged[k].voucher_id = acMerged[j].voucher_id
                  => acMerged[k].is_balanced = acMerged[j].is_balanced

====
